---- MODULE Spec2Model ----
(***************************************************************************)
(* A model of the SplitSense ledger and analytics engine:                  *)
(*   ingestion/normalizer.py   DataNormalizer                              *)
(*   analytics/balances.py     BalanceAnalyzer                             *)
(*   analytics/spending.py     SpendingAnalyzer                            *)
(*   main.py                   process_data                                *)
(*                                                                         *)
(* Money.  A Python Decimal is modelled as [coef, scale], standing for     *)
(* coef / 10^scale, which is what Decimal keeps (str(Decimal("50.0")) is   *)
(* "50.0", not "50.00").  Addition and subtraction are exact and take the  *)
(* larger scale, as Decimal does.  A text (a share string of the users     *)
(* payload) is a sequence of one-character strings.                        *)
(*                                                                         *)
(* Dates.  Only the year and the month of a date are modelled; the month   *)
(* key "YYYY-MM" is the number year * 100 + month, whose order is the      *)
(* order of the strings.                                                   *)
(***************************************************************************)
EXTENDS Integers, Sequences, FiniteSets, TLC

\* Bounds of the model.
MaxExpenses == 2     \* longest expense list explored
MaxTicks == 2        \* days the clock advances
MaxCalls == 2        \* calls recorded in one run
MaxMonths == 5       \* most months of spending explored
MaxEntries == 3      \* longest list of dated entries analysed
MaxCategories == 10  \* further categories of a list: as many as a ranking keeps
MaxServed == 9       \* longest short list the service holds
MaxLimit == 3        \* largest small page limit
MaxOps == 3          \* calls the threads begin in one run
MaxRequests == 3     \* requests the web process receives in one run

VARIABLES
    expenses,          \* the expense list handed to the operation
    current_user_id,   \* the user the analyzers are built for
    base_currency,     \* the base currency handed to DataNormalizer
    pc,                \* position of the run
    normalized,        \* outcome of normalize_expenses, NotRun before
    renormalized,      \* outcome of normalizing the normalized list again
    spending,          \* SpendingInsight, NotRun before
    insights,          \* user id -> BalanceInsight of BalanceAnalyzer(user id)
    original_currency, \* process_data's display currency, "" before
    display,           \* what process_data returns, NotRun before
    groups,            \* the group list handed to the operation
    validation,        \* ValidationResult of verify_all, NotRun before
    checks,            \* (checks, errors) of one verify_* method, by its name
    categories,        \* CategoryInsight, NotRun before
    groups_insight,    \* GroupInsight, NotRun before
    advanced,          \* the six results of AdvancedAnalyzer, NotRun before
    now,               \* the clock datetime.now reads, as a day number
    calls,             \* the calls made so far with their results
    globals,           \* the module-level objects of the web process
    frames             \* the calls in progress: their position and locals

vars == <<expenses, current_user_id, base_currency, pc, normalized,
          renormalized, spending, insights, original_currency, display,
          groups, validation, checks, categories, groups_insight, advanced,
          now, calls, globals, frames>>

NotRun == [run |-> FALSE]

----------------------------------------------------------------------------
(* Decimal *)

RECURSIVE Pow10(_)
Pow10(n) == IF n = 0 THEN 1 ELSE 10 * Pow10(n - 1)

Abs(x) == IF x < 0 THEN -x ELSE x

Max(a, b) == IF a >= b THEN a ELSE b

RECURSIVE GCD(_, _)
GCD(a, b) == IF b = 0 THEN a ELSE GCD(b, a % b)

Dec(c, s) == [coef |-> c, scale |-> s]

\* Decimal("0"), also what defaultdict(Decimal) creates for a new key.
DecZero == Dec(0, 0)

\* The coefficient of d written at scale s >= d.scale.
Rescale(d, s) == d.coef * Pow10(s - d.scale)

DecAdd(a, b) ==
    LET s == Max(a.scale, b.scale) IN Dec(Rescale(a, s) + Rescale(b, s), s)

DecSub(a, b) ==
    LET s == Max(a.scale, b.scale) IN Dec(Rescale(a, s) - Rescale(b, s), s)

\* Numeric comparison, as == and != on Decimal compare values, not digits.
DecEq(a, b) ==
    LET s == Max(a.scale, b.scale) IN Rescale(a, s) = Rescale(b, s)

\* The value of d in cents; exact while d.scale <= 2 (all amounts explored).
Cents(d) == Rescale(d, 2)

DigitChars == <<"0", "1", "2", "3", "4", "5", "6", "7", "8", "9">>

DigitVal(c) == (CHOOSE i \in 1..10 : DigitChars[i] = c) - 1

RECURSIVE DigitsValue(_)
DigitsValue(s) ==
    IF s = <<>> THEN 0
    ELSE DigitsValue(SubSeq(s, 1, Len(s) - 1)) * 10 + DigitVal(s[Len(s)])

RECURSIVE NatDigits(_)
NatDigits(n) ==
    IF n < 10 THEN <<DigitChars[n + 1]>>
    ELSE NatDigits(n \div 10) \o <<DigitChars[(n % 10) + 1]>>

RECURSIVE PadLeft(_, _)
PadLeft(s, w) == IF Len(s) >= w THEN s ELSE PadLeft(<<"0">> \o s, w)

\* Decimal(text) for an unsigned text of digits with at most one point.
ParseDecimal(s) ==
    LET dots == {i \in 1..Len(s) : s[i] = "."} IN
    IF dots = {} THEN Dec(DigitsValue(s), 0)
    ELSE LET i == CHOOSE j \in dots : TRUE
             frac == SubSeq(s, i + 1, Len(s))
         IN  Dec(DigitsValue(SubSeq(s, 1, i - 1) \o frac), Len(frac))

\* str(d): plain notation, the fraction printed with d.scale digits.
DecimalStr(d) ==
    LET a == Abs(d.coef)
        p == Pow10(d.scale)
        sign == IF d.coef < 0 THEN <<"-">> ELSE <<>>
        frac == IF d.scale = 0 THEN <<>>
                ELSE <<".">> \o PadLeft(NatDigits(a % p), d.scale)
    IN  sign \o NatDigits(a \div p) \o frac

----------------------------------------------------------------------------
(* ingestion/normalizer.py *)

\* EXCHANGE_RATES, each rate written in thousandths (1.10 is 1100).
EXCHANGE_RATES ==
    [USD |-> 1000, EUR |-> 1100, GBP |-> 1270, INR |-> 12, CAD |-> 740,
     AUD |-> 650]

\* str.upper() on the currency codes explored.
Upper(code) == IF code = "eur" THEN "EUR" ELSE code

\* The names normalizer.py imports from models.schemas: ExpenseRepayment,
\* which normalize_expense constructs, is not among them.
NormalizerImports == {"Expense", "Group", "CurrencyCode"}

\* (amount * (base_rate / source_rate)).quantize(Decimal("0.01"), ROUND_HALF_UP)
\* computed on the exact quotient.  Decimal rounds the quotient to 28 digits,
\* which moves a result only when the exact product lies on a half cent and
\* the quotient is inexact; with the base currencies explored (USD, EUR, INR)
\* that never happens, so the two agree.
QuantizeConverted(amount, base_rate, source_rate) ==
    LET p == Abs(Cents(amount)) * base_rate
        q == (2 * p + source_rate) \div (2 * source_rate)
    IN  Dec(IF amount.coef < 0 THEN -q ELSE q, 2)

normalize_currency(amount, from_currency, base) ==
    LET fc == Upper(from_currency) IN
    IF fc = base THEN amount
    ELSE IF fc \notin DOMAIN EXCHANGE_RATES THEN amount
    ELSE QuantizeConverted(amount, EXCHANGE_RATES[base], EXCHANGE_RATES[fc])

\* DataNormalizer(base_currency): the base currency kept, or ValueError.
DataNormalizer(base) ==
    IF Upper(base) \in DOMAIN EXCHANGE_RATES
    THEN [raised |-> FALSE, base_currency |-> Upper(base)]
    ELSE [raised |-> TRUE, error |-> "ValueError"]

\* One entry of the users payload with its share strings converted.
NormalizeUserData(user_data, currency_code, base) ==
    [k \in DOMAIN user_data |->
        IF k \in {"paid_share", "owed_share"}
        THEN DecimalStr(normalize_currency(ParseDecimal(user_data[k]),
                                           currency_code, base))
        ELSE user_data[k]]

\* The repayment loop of normalize_expense: each edge converted from the
\* edge's own currency code and relabelled with the base currency.
NormalizeRepayment(repayment, base) ==
    [from_user |-> repayment.from_user,
     to_user |-> repayment.to_user,
     amount |-> normalize_currency(repayment.amount, repayment.currency_code,
                                   base),
     currency_code |-> base]

normalize_expense(expense, base) ==
    IF Len(expense.repayments) > 0 /\ "ExpenseRepayment" \notin NormalizerImports
    THEN [raised |-> TRUE, error |-> "NameError"]
    ELSE [raised |-> FALSE,
          expense |->
            [expense EXCEPT
               !.cost = normalize_currency(expense.cost,
                                           expense.currency_code, base),
               !.currency_code = base,
               !.repayments =
                   [i \in 1..Len(expense.repayments) |->
                       NormalizeRepayment(expense.repayments[i], base)],
               !.users =
                   [i \in 1..Len(expense.users) |->
                       NormalizeUserData(expense.users[i],
                                         expense.currency_code, base)]]]

\* [self.normalize_expense(exp) for exp in expenses]: the first exception
\* ends the comprehension.
normalize_expenses(exps, base) ==
    LET each == [i \in 1..Len(exps) |-> normalize_expense(exps[i], base)] IN
    IF \E i \in 1..Len(exps) : each[i].raised
    THEN [run |-> TRUE, raised |-> TRUE,
          error |-> each[CHOOSE i \in 1..Len(exps) :
                            /\ each[i].raised
                            /\ \A j \in 1..(i - 1) : ~each[j].raised].error]
    ELSE [run |-> TRUE, raised |-> FALSE,
          expenses |-> [i \in 1..Len(exps) |-> each[i].expense]]

\* normalize_groups(groups), lines 154-168: each Group built anew with its
\* id, name and members (its timestamp is not modelled).
normalize_groups(grps) ==
    [i \in 1..Len(grps) |->
        [id |-> grps[i].id, name |-> grps[i].name, members |-> grps[i].members]]

----------------------------------------------------------------------------
(* Python dicts keep insertion order: a dict is a sequence of <<key, value>> *)

DictKeys(d) == {d[i][1] : i \in 1..Len(d)}

DictGet(d, k) == d[CHOOSE i \in 1..Len(d) : d[i][1] = k][2]

\* d[k] = v
DictSet(d, k, v) ==
    IF k \in DictKeys(d)
    THEN [i \in 1..Len(d) |-> IF d[i][1] = k THEN <<k, v>> ELSE d[i]]
    ELSE Append(d, <<k, v>>)

\* d[k] += v and d[k] -= v on a defaultdict(Decimal)
DictAdd(d, k, v) ==
    DictSet(d, k, DecAdd(IF k \in DictKeys(d) THEN DictGet(d, k) ELSE DecZero, v))

DictSub(d, k, v) ==
    DictSet(d, k, DecSub(IF k \in DictKeys(d) THEN DictGet(d, k) ELSE DecZero, v))

\* The keys of d in increasing order: sorted(d.keys()) for number keys.
RECURSIVE SortedKeys(_)
SortedKeys(ks) ==
    IF ks = {} THEN <<>>
    ELSE LET m == CHOOSE x \in ks : \A y \in ks : x <= y
         IN  <<m>> \o SortedKeys(ks \ {m})

\* date.strftime("%Y-%m"), the quarter key and the year key, as numbers.
MonthKey(date) == date.year * 100 + date.month

IsLeap(y) == y % 4 = 0 /\ (y % 100 # 0 \/ y % 400 = 0)

DaysInMonth(y, m) ==
    IF m = 2 THEN (IF IsLeap(y) THEN 29 ELSE 28)
    ELSE IF m \in {4, 6, 9, 11} THEN 30 ELSE 31

RECURSIVE DaysBeforeMonth(_, _)
DaysBeforeMonth(y, m) ==
    IF m = 1 THEN 0 ELSE DaysBeforeMonth(y, m - 1) + DaysInMonth(y, m - 1)

RECURSIVE DaysBeforeYear(_)
DaysBeforeYear(y) ==
    IF y <= 2020 THEN 0
    ELSE DaysBeforeYear(y - 1) + (IF IsLeap(y - 1) THEN 366 ELSE 365)

\* The day number of a date, counted from 1 January 2020: the difference of
\* two of them is (d2 - d1).days.
DayNumber(date) ==
    DaysBeforeYear(date.year) + DaysBeforeMonth(date.year, date.month)
    + (date.day - 1)

QuarterKey(date) == date.year * 10 + ((date.month - 1) \div 3 + 1)

YearKey(date) == date.year

\* [e for e in expenses if keep(e)] for a keep given as a set of indexes.
RECURSIVE FilterSeq(_, _, _)
FilterSeq(seq, keep, i) ==
    IF i > Len(seq) THEN <<>>
    ELSE (IF i \in keep THEN <<seq[i]>> ELSE <<>>) \o FilterSeq(seq, keep, i + 1)

----------------------------------------------------------------------------
(* analytics/balances.py *)

BalanceValidExpenses(exps) ==
    FilterSeq(exps, {i \in 1..Len(exps) :
                        ~exps[i].deleted_at /\ ~exps[i].payment}, 1)

BalanceSettlements(exps) ==
    FilterSeq(exps, {i \in 1..Len(exps) :
                        ~exps[i].deleted_at /\ exps[i].payment}, 1)

\* The accumulators of analyze before the loops.
LedgerInit ==
    [net_balance |-> DecZero, owed_to_user |-> DecZero, user_owes |-> DecZero,
     by_person_id |-> <<>>, trend_over_time |-> <<>>, currency_code |-> "USD"]

\* The full name the lookup keeps for one user entry: the non-empty words of
\* first_name and last_name (a last name "None" counts as missing).
FullName(user_info) ==
    LET first == IF "first_name" \in DOMAIN user_info
                 THEN user_info.first_name ELSE ""
        last == IF "last_name" \in DOMAIN user_info
                THEN user_info.last_name ELSE ""
        words == IF last # "" /\ last # "None" THEN <<first, last>> ELSE <<first>>
    IN  SelectSeq(words, LAMBDA w : w # "")

RECURSIVE NameLookupUsers(_, _, _)
NameLookupUsers(lookup, users, i) ==
    IF i > Len(users) THEN lookup
    ELSE LET info == IF "user" \in DOMAIN users[i] THEN users[i].user ELSE [x |-> 0]
             has_id == "id" \in DOMAIN info /\ info.id # 0
             next == IF /\ has_id
                        /\ info.id \notin DictKeys(lookup)
                        /\ FullName(info) # <<>>
                     THEN DictSet(lookup, info.id, FullName(info))
                     ELSE lookup
         IN  NameLookupUsers(next, users, i + 1)

\* user_name_lookup: the first name found for each id over the expenses that
\* are not deleted.
RECURSIVE UserNameLookup(_, _, _)
UserNameLookup(lookup, exps, i) ==
    IF i > Len(exps) THEN lookup
    ELSE UserNameLookup(IF exps[i].deleted_at THEN lookup
                        ELSE NameLookupUsers(lookup, exps[i].users, 1),
                        exps, i + 1)

\* Mutant: the debtor's branch forgets to lower net_balance.
ApplyExpenseRepayment_DebtorKeepsNet(acc, repayment, user, month_key) ==
    LET amount == repayment.amount IN
    IF repayment.to_user = user
    THEN [acc EXCEPT
            !.by_person_id = DictAdd(@, repayment.from_user, amount),
            !.net_balance = DecAdd(@, amount),
            !.owed_to_user = DecAdd(@, amount),
            !.trend_over_time = DictAdd(@, month_key, amount)]
    ELSE IF repayment.from_user = user
    THEN [acc EXCEPT
            !.by_person_id = DictSub(@, repayment.to_user, amount),
            !.user_owes = DecAdd(@, amount),
            !.trend_over_time = DictSub(@, month_key, amount)]
    ELSE acc

\* One repayment of an expense that is not a settlement.
ApplyExpenseRepayment(acc, repayment, user, month_key) ==
    LET amount == repayment.amount IN
    IF repayment.to_user = user
    THEN [acc EXCEPT
            !.by_person_id = DictAdd(@, repayment.from_user, amount),
            !.net_balance = DecAdd(@, amount),
            !.owed_to_user = DecAdd(@, amount),
            !.trend_over_time = DictAdd(@, month_key, amount)]
    ELSE IF repayment.from_user = user
    THEN [acc EXCEPT
            !.by_person_id = DictSub(@, repayment.to_user, amount),
            !.net_balance = DecSub(@, amount),
            !.user_owes = DecAdd(@, amount),
            !.trend_over_time = DictSub(@, month_key, amount)]
    ELSE acc

\* Mutant: a settlement edge applied with the sign of an expense edge.
ApplySettlementRepayment_NotInverted(acc, repayment, user, month_key) ==
    LET amount == repayment.amount IN
    IF repayment.to_user = user
    THEN [acc EXCEPT
            !.by_person_id = DictAdd(@, repayment.from_user, amount),
            !.net_balance = DecAdd(@, amount),
            !.trend_over_time = DictAdd(@, month_key, amount)]
    ELSE IF repayment.from_user = user
    THEN [acc EXCEPT
            !.by_person_id = DictSub(@, repayment.to_user, amount),
            !.net_balance = DecSub(@, amount),
            !.trend_over_time = DictSub(@, month_key, amount)]
    ELSE acc

\* One repayment of a settlement.
ApplySettlementRepayment(acc, repayment, user, month_key) ==
    LET amount == repayment.amount IN
    IF repayment.from_user = user
    THEN [acc EXCEPT
            !.by_person_id = DictAdd(@, repayment.to_user, amount),
            !.net_balance = DecAdd(@, amount),
            !.trend_over_time = DictAdd(@, month_key, amount)]
    ELSE IF repayment.to_user = user
    THEN [acc EXCEPT
            !.by_person_id = DictSub(@, repayment.from_user, amount),
            !.net_balance = DecSub(@, amount),
            !.trend_over_time = DictSub(@, month_key, amount)]
    ELSE acc

RECURSIVE ExpenseRepayments(_, _, _, _, _)
ExpenseRepayments(acc, reps, user, month_key, i) ==
    IF i > Len(reps) THEN acc
    ELSE ExpenseRepayments(ApplyExpenseRepayment(acc, reps[i], user, month_key),
                           reps, user, month_key, i + 1)

RECURSIVE SettlementRepayments(_, _, _, _, _)
SettlementRepayments(acc, reps, user, month_key, i) ==
    IF i > Len(reps) THEN acc
    ELSE SettlementRepayments(
             ApplySettlementRepayment(acc, reps[i], user, month_key),
             reps, user, month_key, i + 1)

\* for expense in valid_expenses: ...
RECURSIVE ProcessValidExpenses(_, _, _, _)
ProcessValidExpenses(acc, valid, user, i) ==
    IF i > Len(valid) THEN acc
    ELSE ProcessValidExpenses(
             ExpenseRepayments([acc EXCEPT !.currency_code = valid[i].currency_code],
                               valid[i].repayments, user,
                               MonthKey(valid[i].date), 1),
             valid, user, i + 1)

\* for settlement in settlements: ...
RECURSIVE ProcessSettlements(_, _, _, _)
ProcessSettlements(acc, settlements, user, i) ==
    IF i > Len(settlements) THEN acc
    ELSE ProcessSettlements(
             SettlementRepayments(acc, settlements[i].repayments, user,
                                  MonthKey(settlements[i].date), 1),
             settlements, user, i + 1)

\* The accumulators of analyze after both loops.
BalanceLedger(user, exps) ==
    ProcessSettlements(
        ProcessValidExpenses(LedgerInit, BalanceValidExpenses(exps), user, 1),
        BalanceSettlements(exps), user, 1)

\* f"User {user_id}"
UserLabel(user_id) == <<"User">> \o NatDigits(user_id)

\* by_person: the non-zero balances under the names of the lookup.
RECURSIVE ByPerson(_, _, _, _)
ByPerson(by_person, by_person_id, lookup, i) ==
    IF i > Len(by_person_id) THEN by_person
    ELSE LET user_id == by_person_id[i][1]
             balance == by_person_id[i][2]
             person_name == IF user_id \in DictKeys(lookup)
                            THEN DictGet(lookup, user_id) ELSE UserLabel(user_id)
         IN  ByPerson(IF ~DecEq(balance, DecZero)
                      THEN DictSet(by_person, person_name, balance)
                      ELSE by_person,
                      by_person_id, lookup, i + 1)

\* The variant that gives each month its own sum.
RECURSIVE CumulativeTrend_PerMonth(_, _, _, _)
CumulativeTrend_PerMonth(trend, sorted_months, cumulative, i) ==
    IF i > Len(sorted_months) THEN <<>>
    ELSE <<<<sorted_months[i], DictGet(trend, sorted_months[i])>>>>
         \o CumulativeTrend_PerMonth(trend, sorted_months, cumulative, i + 1)

\* cumulative_trend: the running sum over the sorted month keys.
RECURSIVE CumulativeTrend(_, _, _, _)
CumulativeTrend(trend, sorted_months, cumulative, i) ==
    IF i > Len(sorted_months) THEN <<>>
    ELSE LET c == DecAdd(cumulative, DictGet(trend, sorted_months[i]))
         IN  <<<<sorted_months[i], c>>>>
             \o CumulativeTrend(trend, sorted_months, c, i + 1)

\* BalanceAnalyzer(user).analyze(exps); the explanation text is left out.
BalanceAnalyzer_analyze(user, exps) ==
    LET acc == BalanceLedger(user, exps) IN
    [net_balance |-> acc.net_balance,
     currency_code |-> acc.currency_code,
     owed_to_user |-> acc.owed_to_user,
     user_owes |-> acc.user_owes,
     by_person |-> ByPerson(<<>>, acc.by_person_id,
                            UserNameLookup(<<>>, exps, 1), 1),
     trend_over_time |-> CumulativeTrend(acc.trend_over_time,
                             SortedKeys(DictKeys(acc.trend_over_time)),
                             DecZero, 1)]

----------------------------------------------------------------------------
(* analytics/spending.py *)

\* Mutant: settlements are not filtered out.
SpendingValidExpenses_KeepsPayments(exps) ==
    FilterSeq(exps, {i \in 1..Len(exps) : ~exps[i].deleted_at}, 1)

SpendingValidExpenses(exps) ==
    FilterSeq(exps, {i \in 1..Len(exps) :
                        ~exps[i].deleted_at /\ ~exps[i].payment}, 1)

\* The accumulators of analyze before the loop.
SpendingInit ==
    [total_spending |-> DecZero, monthly_spending |-> <<>>,
     quarterly_spending |-> <<>>, yearly_spending |-> <<>>,
     currency_code |-> "USD"]

\* user_data.get("user", {}).get("id"); 0 stands for None.
UserIdOf(user_data) ==
    IF "user" \in DOMAIN user_data /\ "id" \in DOMAIN user_data.user
    THEN user_data.user.id ELSE 0

\* Decimal(str(user_data.get(key, "0")))
ShareOf(user_data, key) ==
    IF key \in DOMAIN user_data THEN ParseDecimal(user_data[key])
    ELSE ParseDecimal(<<"0">>)

\* Mutant: the month's amount is assigned, not added to.
SpendUser_MonthAssigned(acc, user_data, expense, user) ==
    IF UserIdOf(user_data) # user THEN acc
    ELSE LET paid_share == ShareOf(user_data, "paid_share") IN
         [acc EXCEPT
            !.total_spending = DecAdd(@, paid_share),
            !.currency_code = expense.currency_code,
            !.monthly_spending = DictSet(@, MonthKey(expense.date), paid_share),
            !.quarterly_spending = DictAdd(@, QuarterKey(expense.date), paid_share),
            !.yearly_spending = DictAdd(@, YearKey(expense.date), paid_share)]

\* The body of the loop over expense.users.
SpendUser(acc, user_data, expense, user) ==
    IF UserIdOf(user_data) # user THEN acc
    ELSE LET paid_share == ShareOf(user_data, "paid_share") IN
         [acc EXCEPT
            !.total_spending = DecAdd(@, paid_share),
            !.currency_code = expense.currency_code,
            !.monthly_spending = DictAdd(@, MonthKey(expense.date), paid_share),
            !.quarterly_spending = DictAdd(@, QuarterKey(expense.date), paid_share),
            !.yearly_spending = DictAdd(@, YearKey(expense.date), paid_share)]

RECURSIVE SpendUsers(_, _, _, _)
SpendUsers(acc, expense, user, i) ==
    IF i > Len(expense.users) THEN acc
    ELSE SpendUsers(SpendUser(acc, expense.users[i], expense, user),
                    expense, user, i + 1)

RECURSIVE SpendExpenses(_, _, _, _)
SpendExpenses(acc, valid, user, i) ==
    IF i > Len(valid) THEN acc
    ELSE SpendExpenses(SpendUsers(acc, valid[i], user, 1), valid, user, i + 1)

\* {k: v for k, v in sorted(d.items())}
SortedDict(d) ==
    LET ks == SortedKeys(DictKeys(d)) IN
    [i \in 1..Len(ks) |-> <<ks[i], DictGet(d, ks[i])>>]

\* sum(d[k] for k in the entries lo..hi of the sorted dict d), in cents
RECURSIVE SumEntries(_, _, _)
SumEntries(d, lo, hi) ==
    IF lo > hi THEN 0 ELSE Cents(d[lo][2]) + SumEntries(d, lo + 1, hi)

\* max(monthly_dict, key=monthly_dict.get): the first key of the largest value.
PeakIndex(d) ==
    CHOOSE i \in 1..Len(d) :
        /\ \A j \in 1..Len(d) : Cents(d[j][2]) <= Cents(d[i][2])
        /\ \A j \in 1..(i - 1) : Cents(d[j][2]) < Cents(d[i][2])

\* The trend of the two halves of the months.  The averages are compared as
\* exact quotients.
SpendingTrend(monthly_dict) ==
    LET n == Len(monthly_dict)
        mid == n \div 2
        first_half == SumEntries(monthly_dict, 1, mid)
        second_half == SumEntries(monthly_dict, mid + 1, n)
    IN  IF n < 4 THEN "stable"
        ELSE IF second_half * mid * 10 > first_half * 11 * (n - mid)
        THEN "increasing"
        ELSE IF second_half * mid * 10 < first_half * 9 * (n - mid)
        THEN "decreasing"
        ELSE "stable"

\* SpendingAnalyzer(user).analyze(exps); the explanation text is left out, and
\* monthly_average is kept as the quotient total / months it is computed from.
SpendingAnalyzer_analyze(user, exps) ==
    LET acc == SpendExpenses(SpendingInit, SpendingValidExpenses(exps), user, 1)
        monthly_dict == SortedDict(acc.monthly_spending)
        has_months == Len(monthly_dict) > 0
    IN  [total_spending |-> acc.total_spending,
         currency_code |-> acc.currency_code,
         monthly_breakdown |-> monthly_dict,
         quarterly_breakdown |-> SortedDict(acc.quarterly_spending),
         yearly_breakdown |-> SortedDict(acc.yearly_spending),
         monthly_average |->
             IF has_months
             THEN [set |-> TRUE, total |-> acc.total_spending,
                   months |-> Len(monthly_dict)]
             ELSE [set |-> FALSE],
         peak_month |->
             IF has_months
             THEN [set |-> TRUE, month |-> monthly_dict[PeakIndex(monthly_dict)][1],
                   amount |-> monthly_dict[PeakIndex(monthly_dict)][2]]
             ELSE [set |-> FALSE],
         spending_trend |-> SpendingTrend(monthly_dict)]

----------------------------------------------------------------------------
(* validation/verifier.py *)

\* None and a present value of an Optional field.
None == <<>>

Some(x) == <<x>>

DecAbs(d) == Dec(Abs(d.coef), d.scale)

DecLt(a, b) ==
    LET s == Max(a.scale, b.scale) IN Rescale(a, s) < Rescale(b, s)

\* Decimal("0.01")
Tolerance == Dec(1, 2)

\* The sum of Decimal(str(user_data.get(key, "0"))) over the entries i.. of
\* the users list.
RECURSIVE SumShares(_, _, _)
SumShares(users, key, i) ==
    IF i > Len(users) THEN DecZero
    ELSE DecAdd(ShareOf(users[i], key), SumShares(users, key, i + 1))

\* Mutant: a difference of exactly one cent is already an error.
ExpenseTotalsCheck_StrictTolerance(expense) ==
    LET total_paid == SumShares(expense.users, "paid_share", 1)
        total_owed == SumShares(expense.users, "owed_share", 1)
        difference == DecAbs(DecSub(total_paid, total_owed))
    IN  [check |-> [type |-> "expense_totals", expense_id |-> expense.id,
                    total_paid |-> total_paid, total_owed |-> total_owed,
                    difference |-> difference,
                    is_valid |-> DecLt(difference, Tolerance)],
         errors |-> IF ~DecLt(difference, Tolerance)
                    THEN <<[text |-> "Expense", expense_id |-> expense.id,
                            total_paid |-> total_paid, total_owed |-> total_owed,
                            difference |-> difference]>>
                    ELSE <<>>]

\* Lines 38-64: the check of one expense and the error it may add.  The
\* message is kept as its parts; the floats of the check as the Decimals
\* they are made from.
ExpenseTotalsCheck(expense) ==
    LET total_paid == SumShares(expense.users, "paid_share", 1)
        total_owed == SumShares(expense.users, "owed_share", 1)
        difference == DecAbs(DecSub(total_paid, total_owed))
    IN  [check |-> [type |-> "expense_totals", expense_id |-> expense.id,
                    total_paid |-> total_paid, total_owed |-> total_owed,
                    difference |-> difference,
                    is_valid |-> ~DecLt(Tolerance, difference)],
         errors |-> IF DecLt(Tolerance, difference)
                    THEN <<[text |-> "Expense", expense_id |-> expense.id,
                            total_paid |-> total_paid, total_owed |-> total_owed,
                            difference |-> difference]>>
                    ELSE <<>>]

RECURSIVE verify_expense_totals_from(_, _)
verify_expense_totals_from(exps, i) ==
    IF i > Len(exps) THEN [checks |-> <<>>, errors |-> <<>>]
    ELSE LET rest == verify_expense_totals_from(exps, i + 1) IN
         IF exps[i].deleted_at THEN rest
         ELSE LET one == ExpenseTotalsCheck(exps[i]) IN
              [checks |-> <<one.check>> \o rest.checks,
               errors |-> one.errors \o rest.errors]

verify_expense_totals(exps) == verify_expense_totals_from(exps, 1)

\* Mutant: deleted expenses are counted in the group balances.
GroupBalanceSkips_KeepsDeleted(expense) == expense.payment

\* Line 82: the expenses verify_group_balances passes over.
GroupBalanceSkips(expense) == expense.deleted_at \/ expense.payment

\* Lines 87-97: the entries of one expense added to group_balances, a dict
\* group_id -> (dict user_id -> balance); entries without a user id (or with
\* the id 0) are passed over, and a group enters the dict with its first
\* counted entry.
RECURSIVE GroupBalanceUsers(_, _, _, _)
GroupBalanceUsers(group_balances, group_id, users, i) ==
    IF i > Len(users) THEN group_balances
    ELSE LET user_id == UserIdOf(users[i])
             balance_change == DecSub(ShareOf(users[i], "paid_share"),
                                      ShareOf(users[i], "owed_share"))
             user_balances == IF group_id \in DictKeys(group_balances)
                              THEN DictGet(group_balances, group_id) ELSE <<>>
             next == IF user_id = 0 THEN group_balances
                     ELSE DictSet(group_balances, group_id,
                                  DictAdd(user_balances, user_id, balance_change))
         IN  GroupBalanceUsers(next, group_id, users, i + 1)

RECURSIVE GroupBalances(_, _, _)
GroupBalances(group_balances, exps, i) ==
    IF i > Len(exps) THEN group_balances
    ELSE GroupBalances(IF GroupBalanceSkips(exps[i]) THEN group_balances
                       ELSE GroupBalanceUsers(group_balances, exps[i].group_id,
                                              exps[i].users, 1),
                       exps, i + 1)

\* sum(d.values()) of a dict of Decimals
RECURSIVE SumValues(_, _)
SumValues(d, i) ==
    IF i > Len(d) THEN DecZero ELSE DecAdd(d[i][2], SumValues(d, i + 1))

\* next((g.name for g in groups if g.id == group_id),
\*      f"Group {group_id}" if group_id > 0 else "No Group")
GroupName(grps, group_id) ==
    LET found == {i \in 1..Len(grps) : grps[i].id = group_id} IN
    IF found # {}
    THEN <<grps[CHOOSE i \in found : \A j \in found : i <= j].name>>
    ELSE IF group_id > 0 THEN <<"Group">> \o NatDigits(group_id)
    ELSE <<"No Group">>

\* group_id if group_id > 0 else None
ReportedGroupId(group_id) == IF group_id > 0 THEN Some(group_id) ELSE None

\* Lines 100-119: the check of one group and the error it may add.
GroupBalanceCheck(group_id, user_balances, grps) ==
    LET total_balance == SumValues(user_balances, 1) IN
    [check |-> [type |-> "group_balance", group_id |-> ReportedGroupId(group_id),
                total_balance |-> total_balance,
                user_count |-> Len(user_balances),
                is_valid |-> ~DecLt(Tolerance, DecAbs(total_balance))],
     errors |-> IF DecLt(Tolerance, DecAbs(total_balance))
                THEN <<[text |-> GroupName(grps, group_id),
                        total_balance |-> total_balance]>>
                ELSE <<>>]

RECURSIVE GroupBalanceChecks(_, _, _)
GroupBalanceChecks(group_balances, grps, i) ==
    IF i > Len(group_balances) THEN [checks |-> <<>>, errors |-> <<>>]
    ELSE LET one == GroupBalanceCheck(group_balances[i][1],
                                      group_balances[i][2], grps)
             rest == GroupBalanceChecks(group_balances, grps, i + 1)
         IN  [checks |-> <<one.check>> \o rest.checks,
              errors |-> one.errors \o rest.errors]

verify_group_balances(exps, grps) ==
    GroupBalanceChecks(GroupBalances(<<>>, exps, 1), grps, 1)

\* sum(r.amount for r in expense.repayments)
RECURSIVE RepaymentTotal(_, _)
RepaymentTotal(reps, i) ==
    IF i > Len(reps) THEN DecZero
    ELSE DecAdd(reps[i].amount, RepaymentTotal(reps, i + 1))

\* Lines 139-156: the check of one settlement and the error it may add.
SettlementCheck(expense) ==
    LET repayment_total == RepaymentTotal(expense.repayments, 1)
        difference == DecAbs(DecSub(expense.cost, repayment_total))
    IN  [check |-> [type |-> "settlement", expense_id |-> expense.id,
                    cost |-> expense.cost, repayment_total |-> repayment_total,
                    difference |-> difference,
                    is_valid |-> ~DecLt(Tolerance, difference)],
         errors |-> IF DecLt(Tolerance, difference)
                    THEN <<[text |-> "Settlement expense",
                            expense_id |-> expense.id, cost |-> expense.cost,
                            repayment_total |-> repayment_total]>>
                    ELSE <<>>]

RECURSIVE verify_settlements_from(_, _)
verify_settlements_from(exps, i) ==
    IF i > Len(exps) THEN [checks |-> <<>>, errors |-> <<>>]
    ELSE LET rest == verify_settlements_from(exps, i + 1) IN
         IF ~exps[i].payment \/ exps[i].deleted_at THEN rest
         ELSE LET one == SettlementCheck(exps[i]) IN
              [checks |-> <<one.check>> \o rest.checks,
               errors |-> one.errors \o rest.errors]

verify_settlements(exps) == verify_settlements_from(exps, 1)

\* Lines 171-176: group_expenses, a dict group_id -> the currency codes of
\* the group's expenses that are not deleted (all the check reads of them).
RECURSIVE GroupCurrencies(_, _, _)
GroupCurrencies(group_expenses, exps, i) ==
    IF i > Len(exps) THEN group_expenses
    ELSE LET g == exps[i].group_id
             seen == IF g \in DictKeys(group_expenses)
                     THEN DictGet(group_expenses, g) ELSE {}
         IN  GroupCurrencies(
                 IF exps[i].deleted_at THEN group_expenses
                 ELSE DictSet(group_expenses, g,
                              seen \cup {exps[i].currency_code}),
                 exps, i + 1)

\* Lines 178-197: the check of one group and the warning it may add.
CurrencyCheck(group_id, currencies, grps) ==
    [check |-> [type |-> "currency_consistency",
                group_id |-> ReportedGroupId(group_id),
                currencies |-> currencies,
                currency_count |-> Cardinality(currencies),
                is_valid |-> Cardinality(currencies) <= 1],
     warnings |-> IF Cardinality(currencies) > 1
                  THEN <<[text |-> GroupName(grps, group_id),
                          currencies |-> currencies]>>
                  ELSE <<>>]

RECURSIVE CurrencyChecks(_, _, _)
CurrencyChecks(group_expenses, grps, i) ==
    IF i > Len(group_expenses) THEN [checks |-> <<>>, warnings |-> <<>>]
    ELSE LET one == CurrencyCheck(group_expenses[i][1], group_expenses[i][2], grps)
             rest == CurrencyChecks(group_expenses, grps, i + 1)
         IN  [checks |-> <<one.check>> \o rest.checks,
              warnings |-> one.warnings \o rest.warnings]

verify_currency_consistency(exps, grps) ==
    CurrencyChecks(GroupCurrencies(<<>>, exps, 1), grps, 1)

\* The paid minus the owed shares of the user's entries in one users list.
RECURSIVE UserNet(_, _, _)
UserNet(users, user, i) ==
    IF i > Len(users) THEN DecZero
    ELSE LET rest == UserNet(users, user, i + 1) IN
         IF UserIdOf(users[i]) # user THEN rest
         ELSE DecAdd(DecSub(ShareOf(users[i], "paid_share"),
                            ShareOf(users[i], "owed_share")), rest)

RECURSIVE calculate_net_balance_from(_, _, _)
calculate_net_balance_from(user, exps, i) ==
    IF i > Len(exps) THEN DecZero
    ELSE LET rest == calculate_net_balance_from(user, exps, i + 1) IN
         IF exps[i].deleted_at THEN rest
         ELSE DecAdd(UserNet(exps[i].users, user, 1), rest)

calculate_net_balance(user, exps) == calculate_net_balance_from(user, exps, 1)

\* Lines 245-249: what the edges of one settlement add to settlement_balance.
RECURSIVE SettlementAdjustment(_, _, _)
SettlementAdjustment(reps, user, i) ==
    IF i > Len(reps) THEN DecZero
    ELSE LET rest == SettlementAdjustment(reps, user, i + 1) IN
         IF reps[i].from_user = user THEN DecSub(rest, reps[i].amount)
         ELSE IF reps[i].to_user = user THEN DecAdd(rest, reps[i].amount)
         ELSE rest

RECURSIVE SettlementBalance(_, _, _)
SettlementBalance(user, exps, i) ==
    IF i > Len(exps) THEN DecZero
    ELSE LET rest == SettlementBalance(user, exps, i + 1) IN
         IF exps[i].deleted_at \/ ~exps[i].payment THEN rest
         ELSE DecAdd(SettlementAdjustment(exps[i].repayments, user, 1), rest)

verify_net_balance(user, exps) ==
    LET calculated_balance == calculate_net_balance(user, exps)
        settlement_balance == SettlementBalance(user, exps, 1)
    IN  [checks |-> <<[type |-> "net_balance",
                       calculated_from_expenses |-> calculated_balance,
                       settlement_adjustment |-> settlement_balance,
                       total_net_balance |-> DecAdd(calculated_balance,
                                                    settlement_balance),
                       is_valid |-> TRUE]>>,
         errors |-> <<>>]

\* Mutant: the currency warnings are collected as errors.
verify_all_WarningsAreErrors(user, exps, grps) ==
    LET totals == verify_expense_totals(exps)
        balances == verify_group_balances(exps, grps)
        settlements == verify_settlements(exps)
        currencies == verify_currency_consistency(exps, grps)
        net == verify_net_balance(user, exps)
        all_errors == totals.errors \o balances.errors \o settlements.errors
                      \o currencies.warnings \o net.errors
    IN  [is_valid |-> Len(all_errors) = 0,
         checks |-> totals.checks \o balances.checks \o settlements.checks
                    \o currencies.checks \o net.checks,
         errors |-> all_errors,
         warnings |-> currencies.warnings]

\* DataVerifier(user).verify_all(exps, grps)
verify_all(user, exps, grps) ==
    LET totals == verify_expense_totals(exps)
        balances == verify_group_balances(exps, grps)
        settlements == verify_settlements(exps)
        currencies == verify_currency_consistency(exps, grps)
        net == verify_net_balance(user, exps)
        all_errors == totals.errors \o balances.errors \o settlements.errors
                      \o net.errors
    IN  [is_valid |-> Len(all_errors) = 0,
         checks |-> totals.checks \o balances.checks \o settlements.checks
                    \o currencies.checks \o net.checks,
         errors |-> all_errors,
         warnings |-> currencies.warnings]

----------------------------------------------------------------------------
(* analytics/advanced.py *)

\* list.sort and sorted: the elements of seq in the order Before, elements
\* neither of which is before the other keeping their order (a stable sort).
StableSort(seq, Before(_, _)) ==
    LET n == Len(seq)
        rank(i) == 1 + Cardinality({j \in 1..n :
                          \/ Before(seq[j], seq[i])
                          \/ ~Before(seq[i], seq[j]) /\ j < i})
    IN  [k \in 1..n |-> seq[CHOOSE i \in 1..n : rank(i) = k]]

RECURSIVE SumSeq(_, _)
SumSeq(seq, i) == IF i > Len(seq) THEN 0 ELSE seq[i] + SumSeq(seq, i + 1)

\* statistics.mean of numbers, kept as the quotient sum / count
Mean(seq) == [num |-> SumSeq(seq, 1), den |-> Len(seq)]

\* statistics.median of integers: the middle one, or the mean of the two
\* middle ones
Median(seq) ==
    LET sorted == StableSort(seq, LAMBDA a, b : a < b)
        n == Len(seq)
    IN  IF n % 2 = 1 THEN [num |-> sorted[(n + 1) \div 2], den |-> 1]
        ELSE [num |-> sorted[n \div 2] + sorted[n \div 2 + 1], den |-> 2]

\* Lines 212-215, 466-469: the expenses that are not deleted
NotDeleted(exps) ==
    SelectSeq(exps, LAMBDA e : ~e.deleted_at)

\* Lines 228-255: settlement_times, the whole days from each settlement's
\* date to the clock's now.
SettlementTimes(valid, at) ==
    LET payment_expenses == SelectSeq(valid, LAMBDA e : e.payment) IN
    [k \in 1..Len(payment_expenses) |-> at - DayNumber(payment_expenses[k].date)]

\* Lines 265-273: the user's positive owed shares in one users list, as
\* [count, total].
RECURSIVE UnpaidOfUsers(_, _, _)
UnpaidOfUsers(users, user, i) ==
    IF i > Len(users) THEN [count |-> 0, total |-> DecZero]
    ELSE LET rest == UnpaidOfUsers(users, user, i + 1)
             owed_share == ShareOf(users[i], "owed_share")
         IN  IF UserIdOf(users[i]) = user /\ DecLt(DecZero, owed_share)
             THEN [count |-> rest.count + 1,
                   total |-> DecAdd(owed_share, rest.total)]
             ELSE rest

RECURSIVE UnpaidBalances(_, _, _)
UnpaidBalances(valid, user, i) ==
    IF i > Len(valid) THEN [count |-> 0, total |-> DecZero]
    ELSE LET rest == UnpaidBalances(valid, user, i + 1)
             one == UnpaidOfUsers(valid[i].users, user, 1)
         IN  IF valid[i].payment \/ valid[i].deleted_at THEN rest
             ELSE [count |-> one.count + rest.count,
                   total |-> DecAdd(one.total, rest.total)]

\* AdvancedAnalyzer(user).analyze_settlement_efficiency(exps), run when
\* datetime.now(timezone.utc) is the day `at`; the explanation is left out.
analyze_settlement_efficiency(user, exps, at) ==
    LET valid_expenses == NotDeleted(exps)
        settlement_times == SettlementTimes(valid_expenses, at)
        unpaid == UnpaidBalances(valid_expenses, user, 1)
    IN  [average_settlement_days |->
             IF Len(settlement_times) > 0 THEN Mean(settlement_times)
             ELSE [num |-> 0, den |-> 1],
         median_settlement_days |->
             IF Len(settlement_times) > 0 THEN Median(settlement_times)
             ELSE [num |-> 0, den |-> 1],
         unpaid_balances_count |-> unpaid.count,
         unpaid_balances_total |-> unpaid.total,
         currency_code |-> IF Len(valid_expenses) > 0
                           THEN valid_expenses[1].currency_code ELSE "USD",
         by_person |-> <<>>]

\* group_lookup = {g.id: g for g in groups}: the last group of each id
GroupLookup(grps, group_id) ==
    LET found == {i \in 1..Len(grps) : grps[i].id = group_id} IN
    IF found = {} THEN None
    ELSE Some(grps[CHOOSE i \in found : \A j \in found : j <= i])

\* Lines 497-514: the users of one expense other than the current user whose
\* owed share is positive, added to person_friction, a dict
\* user_id -> [unpaid_balance, delay_days]; the user id of an entry without
\* one is kept as 0.
RECURSIVE FrictionOfUsers(_, _, _, _, _)
FrictionOfUsers(person_friction, expense, user, at, i) ==
    IF i > Len(expense.users) THEN person_friction
    ELSE LET user_id == UserIdOf(expense.users[i])
             owed_share == ShareOf(expense.users[i], "owed_share")
             old == IF user_id \in DictKeys(person_friction)
                    THEN DictGet(person_friction, user_id)
                    ELSE [unpaid_balance |-> DecZero, delay_days |-> <<>>]
             days_old == at - DayNumber(expense.date)
             next == IF user_id # user /\ DecLt(DecZero, owed_share)
                     THEN DictSet(person_friction, user_id,
                              [unpaid_balance |-> DecAdd(old.unpaid_balance,
                                                         owed_share),
                               delay_days |-> Append(old.delay_days, days_old)])
                     ELSE person_friction
         IN  FrictionOfUsers(next, expense, user, at, i + 1)

RECURSIVE PersonFriction(_, _, _, _, _)
PersonFriction(person_friction, valid, user, at, i) ==
    IF i > Len(valid) THEN person_friction
    ELSE PersonFriction(FrictionOfUsers(person_friction, valid[i], user, at, 1),
                        valid, user, at, i + 1)

\* Lines 488-495: group_friction, a dict group_id -> metrics; nothing adds to
\* unpaid_balance.
RECURSIVE GroupFriction(_, _, _, _)
GroupFriction(group_friction, valid, grps, i) ==
    IF i > Len(valid) THEN group_friction
    ELSE LET group_id == valid[i].group_id
             old == IF group_id \in DictKeys(group_friction)
                    THEN DictGet(group_friction, group_id)
                    ELSE [name |-> "Unknown", unpaid_balance |-> DecZero,
                          member_count |-> 0, expense_count |-> 0]
             group == GroupLookup(grps, group_id)
             named == IF group # None
                      THEN [old EXCEPT !.name = group[1].name,
                                       !.member_count = Len(group[1].members)]
                      ELSE old
         IN  GroupFriction(
                 DictSet(group_friction, group_id,
                         [named EXCEPT !.expense_count = @ + 1]),
                 valid, grps, i + 1)

\* Lines 517-526: one row of by_person.  The score, float(unpaid_balance) +
\* avg_delay * 10, is kept in cents as a quotient.
PersonRow(user_id, metrics) ==
    LET n == Len(metrics.delay_days) IN
    [user_id |-> user_id,
     unpaid_balance |-> metrics.unpaid_balance,
     average_delay_days |-> IF n > 0 THEN Mean(metrics.delay_days)
                            ELSE [num |-> 0, den |-> 1],
     friction_score |->
         IF n > 0
         THEN [num |-> Cents(metrics.unpaid_balance) * n
                       + 1000 * SumSeq(metrics.delay_days, 1),
               den |-> n]
         ELSE [num |-> Cents(metrics.unpaid_balance), den |-> 1]]

\* Lines 531-540: one row of by_group, its score in cents.
GroupRow(group_id, metrics) ==
    [group_id |-> ReportedGroupId(group_id),
     name |-> metrics.name,
     unpaid_balance |-> metrics.unpaid_balance,
     member_count |-> metrics.member_count,
     expense_count |-> metrics.expense_count,
     friction_score |-> [num |-> Cents(metrics.unpaid_balance)
                                 + 500 * metrics.expense_count,
                         den |-> 1]]

\* a.friction_score > b.friction_score
HigherScore(a, b) ==
    a.friction_score.num * b.friction_score.den
        > b.friction_score.num * a.friction_score.den

\* AdvancedAnalyzer(user).rank_friction(exps, grps), run when
\* datetime.now(timezone.utc) is the day `at`; the explanation is left out.
rank_friction(user, exps, grps, at) ==
    LET valid_expenses == NotDeleted(exps)
        person_friction == PersonFriction(<<>>, valid_expenses, user, at, 1)
        group_friction == GroupFriction(<<>>, valid_expenses, grps, 1)
    IN  [by_person |->
             StableSort([k \in 1..Len(person_friction) |->
                            PersonRow(person_friction[k][1],
                                      person_friction[k][2])],
                        HigherScore),
         by_group |->
             StableSort([k \in 1..Len(group_friction) |->
                            GroupRow(group_friction[k][1],
                                     group_friction[k][2])],
                        HigherScore)]

\* Lines 51-54, 118-121, 305-308, 375-378: valid_expenses of the analyses
\* that leave out deleted expenses and settlements
ValidExpenses(exps) ==
    SelectSeq(exps, LAMBDA e : ~e.deleted_at /\ ~e.payment)

\* Lines 60-69 and 125-137: one (expense, paid_share) pair for each users
\* entry of the user with a positive paid share, in the order of the list.
RECURSIVE ExpenseAmounts(_, _, _)
ExpenseAmounts(valid, user, i) ==
    IF i > Len(valid) THEN <<>>
    ELSE LET own == SelectSeq(valid[i].users,
                        LAMBDA user_data :
                            /\ UserIdOf(user_data) = user
                            /\ DecLt(DecZero, ShareOf(user_data, "paid_share")))
         IN  [k \in 1..Len(own) |->
                 [expense |-> valid[i],
                  paid_share |-> ShareOf(own[k], "paid_share")]]
             \o ExpenseAmounts(valid, user, i + 1)

\* A multiplier is a quotient num / den with den > 0.
Multiplier(num, den) == [num |-> num, den |-> den]

\* The largest unit all the amounts (in cents) are whole multiples of.
RECURSIVE CommonUnit(_, _)
CommonUnit(cents, i) ==
    IF i > Len(cents) THEN 0 ELSE GCD(cents[i], CommonUnit(cents, i + 1))

\* S the sum of the amounts x counted in their common unit, V the sum of
\* (x[i] - x[j])^2 over the pairs i < j, which is n * (sum of squares) - S * S,
\* and L = (n * amount - S) * threshold_multiplier.den.
Moments(amount, cents, threshold_multiplier) ==
    LET n == Len(cents)
        unit == CommonUnit(cents, 1)
        x == [k \in 1..n |-> cents[k] \div unit]
        S == SumSeq(x, 1)
    IN  [n |-> n,
         V |-> SumSeq([i \in 1..n |->
                          SumSeq([j \in 1..n |->
                                     IF i < j THEN (x[i] - x[j]) * (x[i] - x[j])
                                     ELSE 0], 1)], 1),
         L |-> (n * (amount \div unit) - S) * threshold_multiplier.den]

\* lhs > k * V and lhs < k * V for naturals, without forming the product
Exceeds(lhs, k, V) ==
    IF k = 0 THEN lhs > 0
    ELSE lhs \div k > V \/ (lhs \div k = V /\ lhs % k > 0)

FallsShort(lhs, k, V) == k > 0 /\ lhs \div k < V

\* Mutant: the threshold lies below the mean, mean - multiplier * stdev.
AboveThreshold_BelowMean(amount, cents, threshold_multiplier) ==
    LET m == Moments(amount, cents, threshold_multiplier)
        num == -threshold_multiplier.num
        lhs == m.L * m.L * (m.n - 1)
        k == num * num * m.n
    IN  IF num >= 0 THEN m.L > 0 /\ Exceeds(lhs, k, m.V)
        ELSE IF m.L >= 0 THEN m.L > 0 \/ m.V > 0
        ELSE FallsShort(lhs, k, m.V)

\* Lines 79-82 and 87: float(amount) > mean + threshold_multiplier * stdev,
\* with mean = S / n and the sample deviation stdev = sqrt(V / (n (n - 1))).
\* With amount - mean = (n * amount - S) / n the comparison is
\*     L * sqrt(n - 1) > threshold_multiplier.num * sqrt(n * V),
\* decided on the squares by the signs of the two sides.  The comparison
\* does not depend on the unit of the amounts.  The code computes in binary
\* floating point; this is the comparison its values round.
AboveThreshold(amount, cents, threshold_multiplier) ==
    LET m == Moments(amount, cents, threshold_multiplier)
        num == threshold_multiplier.num
        lhs == m.L * m.L * (m.n - 1)
        k == num * num * m.n
    IN  IF num >= 0 THEN m.L > 0 /\ Exceeds(lhs, k, m.V)
        ELSE IF m.L >= 0 THEN m.L > 0 \/ m.V > 0
        ELSE FallsShort(lhs, k, m.V)

\* Mutant: two amounts are enough.
InsufficientAmounts_LessThanTwo(amounts) == Len(amounts) < 2

\* Line 71: len(amounts) < 3
InsufficientAmounts(amounts) == Len(amounts) < 3

\* detect_anomalies(expenses, threshold_multiplier), lines 36-105.  An anomaly
\* carries the date, the amount and the description of its expense; the
\* reason and explanation texts are left out but for the kind of explanation.
detect_anomalies(user, exps, threshold_multiplier) ==
    LET expense_amounts == ExpenseAmounts(ValidExpenses(exps), user, 1)
        cents == [k \in 1..Len(expense_amounts) |->
                     Cents(expense_amounts[k].paid_share)]
        found == SelectSeq(expense_amounts,
                     LAMBDA pair : AboveThreshold(Cents(pair.paid_share), cents,
                                                  threshold_multiplier))
    IN  IF InsufficientAmounts(expense_amounts)
        THEN [anomalies |-> <<>>,
              threshold_multiplier |-> threshold_multiplier,
              explanation |-> "Insufficient data for anomaly detection"]
        ELSE [anomalies |->
                  [k \in 1..Len(found) |->
                      [date |-> found[k].expense.date,
                       amount |-> found[k].paid_share,
                       description |-> found[k].expense.description]],
              threshold_multiplier |-> threshold_multiplier,
              explanation |-> "Detected spending anomalies"]

\* str.lower() on the words explored.
Lower(word) ==
    CASE word = "Netflix" -> "netflix"
      [] word = "NETFLIX" -> "netflix"
      [] word = "Monthly" -> "monthly"
      [] word = "Bill" -> "bill"
      [] word = "Rent" -> "rent"
      [] word = "Expense" -> "expense"
      [] OTHER -> word

\* Lines 134-136: the first three words of the description in lower case
\* (joined by single blanks in the code).
Pattern(description) ==
    [k \in 1..(IF Len(description) < 3 THEN Len(description) ELSE 3) |->
        Lower(description[k])]

\* Lines 123-137: description_groups, the pairs under their pattern in the
\* order the patterns first occur.
RECURSIVE DescriptionGroups(_, _, _)
DescriptionGroups(description_groups, pairs, i) ==
    IF i > Len(pairs) THEN description_groups
    ELSE LET pattern == Pattern(pairs[i].expense.description)
             expense_list == IF pattern \in DictKeys(description_groups)
                             THEN DictGet(description_groups, pattern)
                             ELSE <<>>
         IN  DescriptionGroups(
                 DictSet(description_groups, pattern,
                         Append(expense_list, pairs[i])),
                 pairs, i + 1)

\* Mutant: two occurrences make a pattern recurring.
IsRecurring_TwoOccurrences(expense_list) == ~(Len(expense_list) < 2)

\* Lines 143-144: a pattern with fewer than 3 occurrences is passed over
IsRecurring(expense_list) == ~(Len(expense_list) < 3)

\* A quotient num / den in lowest terms, and the sum of two.
Quotient(num, den) ==
    LET g == GCD(Abs(num), den) IN [num |-> num \div g, den |-> den \div g]

QuotientAdd(a, b) == Quotient(a.num * b.den + b.num * a.den, a.den * b.den)

RECURSIVE DecSum(_, _)
DecSum(decs, i) ==
    IF i > Len(decs) THEN DecZero ELSE DecAdd(decs[i], DecSum(decs, i + 1))

\* Lines 146-177: the RecurringExpense of one pattern.  average_amount (in
\* cents) and frequency_days are kept as the quotients statistics.mean
\* rounds.
RecurringExpense(pattern, unsorted) ==
    LET expense_list ==
            StableSort(unsorted,
                LAMBDA a, b : DayNumber(a.expense.date) < DayNumber(b.expense.date))
        n == Len(expense_list)
        dates == [k \in 1..n |-> expense_list[k].expense.date]
        date_diffs == [k \in 1..(n - 1) |->
                          DayNumber(dates[k + 1]) - DayNumber(dates[k])]
        first_expense == expense_list[1].expense
    IN  [description_pattern |-> pattern,
         category |-> first_expense.category,
         average_amount |->
             Quotient(SumSeq([k \in 1..n |-> Cents(expense_list[k].paid_share)], 1), n),
         frequency_days |->
             IF Len(dates) > 1
             THEN Quotient(SumSeq(date_diffs, 1), Len(date_diffs))
             ELSE Quotient(30, 1),
         occurrences |-> n,
         total_amount |-> DecSum([k \in 1..n |-> expense_list[k].paid_share], 1),
         currency_code |-> first_expense.currency_code,
         last_occurrence |-> dates[n]]

\* Line 185: sub.frequency_days <= 35
IsMonthly(sub) == sub.frequency_days.num <= 35 * sub.frequency_days.den

\* Lines 183-186: monthly_total, in cents
RECURSIVE MonthlyTotal(_, _)
MonthlyTotal(subscriptions, i) ==
    IF i > Len(subscriptions) THEN Quotient(0, 1)
    ELSE LET rest == MonthlyTotal(subscriptions, i + 1) IN
         IF IsMonthly(subscriptions[i])
         THEN QuotientAdd(subscriptions[i].average_amount, rest)
         ELSE rest

\* detect_subscriptions(expenses), lines 107-200; the explanation text is
\* left out.
detect_subscriptions(user, exps) ==
    LET description_groups ==
            DescriptionGroups(<<>>, ExpenseAmounts(ValidExpenses(exps), user, 1), 1)
        recurring == SelectSeq(description_groups,
                               LAMBDA item : IsRecurring(item[2]))
        subscriptions ==
            StableSort([k \in 1..Len(recurring) |->
                           RecurringExpense(recurring[k][1], recurring[k][2])],
                       LAMBDA a, b : DecLt(b.total_amount, a.total_amount))
    IN  [subscriptions |-> subscriptions,
         total_monthly_subscriptions |-> MonthlyTotal(subscriptions, 1),
         currency_code |-> IF Len(subscriptions) > 0
                           THEN subscriptions[1].currency_code ELSE "USD"]

\* Lines 383-393 for one users list: monthly_changes[month_key] += paid_share
\* - owed_share for each entry of the user.
RECURSIVE ChangesOfUsers(_, _, _, _)
ChangesOfUsers(monthly_changes, expense, user, i) ==
    IF i > Len(expense.users) THEN monthly_changes
    ELSE LET user_data == expense.users[i]
             balance_change == DecSub(ShareOf(user_data, "paid_share"),
                                      ShareOf(user_data, "owed_share"))
         IN  ChangesOfUsers(
                 IF UserIdOf(user_data) = user
                 THEN DictAdd(monthly_changes, MonthKey(expense.date), balance_change)
                 ELSE monthly_changes,
                 expense, user, i + 1)

RECURSIVE MonthlyChanges(_, _, _, _)
MonthlyChanges(monthly_changes, valid, user, i) ==
    IF i > Len(valid) THEN monthly_changes
    ELSE MonthlyChanges(ChangesOfUsers(monthly_changes, valid[i], user, 1),
                        valid, user, i + 1)

\* predict_balance(expenses, months_to_predict), lines 359-449.  The
\* predicted balance (in cents) is kept as a quotient, avg_change being the
\* quotient statistics.mean rounds; the explanation text is left out but for
\* its kind.
predict_balance(user, exps, months_to_predict) ==
    LET valid_expenses == ValidExpenses(exps)
        monthly_changes == MonthlyChanges(<<>>, valid_expenses, user, 1)
        sorted == SortedDict(monthly_changes)
        n == Len(sorted)
        changes == [k \in 1..n |-> Cents(sorted[k][2])]
        current_balance == SumSeq(changes, 1)
        recent_trend == changes[n] - changes[n - 1]
    IN  IF Len(monthly_changes) < 2
        THEN [predicted_balance |-> Quotient(0, 1),
              currency_code |-> "USD",
              confidence_level |-> "low",
              based_on_months |-> Len(monthly_changes),
              trend |-> "stable",
              explanation |-> "Insufficient data for prediction"]
        ELSE [predicted_balance |->
                  Quotient(current_balance * n + current_balance * months_to_predict, n),
              currency_code |-> IF Len(valid_expenses) > 0
                                THEN valid_expenses[1].currency_code ELSE "USD",
              confidence_level |-> IF n >= 6 THEN "high"
                                   ELSE IF n >= 3 THEN "medium" ELSE "low",
              based_on_months |-> n,
              trend |-> IF recent_trend > 10 THEN "increasing"
                        ELSE IF recent_trend < -10 THEN "decreasing"
                        ELSE "stable",
              explanation |-> "Predicted balance"]

\* analyze_cash_flow for one users list, lines 317-333
RECURSIVE CashFlowOfUsers(_, _, _, _)
CashFlowOfUsers(acc, expense, user, i) ==
    IF i > Len(expense.users) THEN acc
    ELSE LET user_data == expense.users[i]
             paid_share == ShareOf(user_data, "paid_share")
             owed_share == ShareOf(user_data, "owed_share")
             counted == DecLt(DecZero, paid_share)
         IN  CashFlowOfUsers(
                 IF UserIdOf(user_data) # user THEN acc
                 ELSE [total_paid |-> DecAdd(acc.total_paid, paid_share),
                       total_received |-> DecAdd(acc.total_received, owed_share),
                       total_expenses |-> acc.total_expenses + (IF counted THEN 1 ELSE 0),
                       front_pay_count |->
                           acc.front_pay_count
                           + (IF counted /\ DecLt(owed_share, paid_share) THEN 1 ELSE 0),
                       currency_code |-> expense.currency_code],
                 expense, user, i + 1)

RECURSIVE CashFlow(_, _, _, _)
CashFlow(acc, valid, user, i) ==
    IF i > Len(valid) THEN acc
    ELSE CashFlow(CashFlowOfUsers(acc, valid[i], user, 1), valid, user, i + 1)

\* analyze_cash_flow(expenses), lines 295-357.  front_pay_percentage is kept
\* as the quotient front_pay_count * 100 / total_expenses; of the explanation
\* text only the class named in it, flow_desc, is kept.
analyze_cash_flow(user, exps) ==
    LET acc == CashFlow([total_paid |-> DecZero, total_received |-> DecZero,
                         total_expenses |-> 0, front_pay_count |-> 0,
                         currency_code |-> "USD"],
                        ValidExpenses(exps), user, 1)
    IN  [total_paid |-> acc.total_paid,
         total_received |-> acc.total_received,
         net_cash_flow |-> DecSub(acc.total_paid, acc.total_received),
         currency_code |-> acc.currency_code,
         flow_desc |-> IF DecLt(DecZero, DecSub(acc.total_paid, acc.total_received))
                       THEN "net payer" ELSE "net receiver",
         front_pay_percentage |->
             IF acc.total_expenses > 0
             THEN Quotient(acc.front_pay_count * 100, acc.total_expenses)
             ELSE Quotient(0, 1)]

----------------------------------------------------------------------------
(* analytics/categories.py and analytics/groups.py *)

\* seq[:10]
Top10(seq) == SubSeq(seq, 1, IF Len(seq) < 10 THEN Len(seq) ELSE 10)

\* Lines 46-56 of categories.py for one users list: the paid share of each
\* entry of the user added to the expense's category.
RECURSIVE CategoryOfUsers(_, _, _, _)
CategoryOfUsers(acc, expense, user, i) ==
    IF i > Len(expense.users) THEN acc
    ELSE LET user_data == expense.users[i]
             category == IF expense.category = "" THEN "Uncategorized"
                         ELSE expense.category
         IN  CategoryOfUsers(
                 IF UserIdOf(user_data) # user THEN acc
                 ELSE [by_category |->
                           DictAdd(acc.by_category, category,
                                   ShareOf(user_data, "paid_share")),
                       currency_code |-> expense.currency_code],
                 expense, user, i + 1)

RECURSIVE ByCategory(_, _, _, _)
ByCategory(acc, valid, user, i) ==
    IF i > Len(valid) THEN acc
    ELSE ByCategory(CategoryOfUsers(acc, valid[i], user, 1), valid, user, i + 1)

\* The quotient num * 10^places / den, for a positive den, as the whole part
\* q and the rest r, found a digit at a time so that no product leaves the
\* integers of the checker.
RECURSIVE LongDivision(_, _, _)
LongDivision(num, den, places) ==
    IF places = 0 THEN [q |-> num \div den, r |-> num % den]
    ELSE LET p == LongDivision(num, den, places - 1)
         IN  [q |-> p.q * 10 + (p.r * 10) \div den, r |-> (p.r * 10) % den]

\* round(float(x), 2) for x = 100 * amount / total, in hundredths: the
\* nearest hundredth of x.  An x halfway between two hundredths goes to the
\* even one: so round() does on a float that holds x exactly, as it does for
\* the eighths (x = 12.125).
RoundedHundredths(amount, total) ==
    LET p == LongDivision(amount, total, 4)
    IN  IF 2 * p.r < total THEN p.q
        ELSE IF 2 * p.r > total THEN p.q + 1
        ELSE IF p.q % 2 = 0 THEN p.q
        ELSE p.q + 1

\* The variant that keeps the hundredths below the quotient.
Percentage_Truncated(amount, total) ==
    IF DecLt(DecZero, total)
    THEN Dec(LongDivision(Cents(amount), Cents(total), 4).q, 2)
    ELSE Dec(0, 2)

\* Lines 68-72: round(float((amount / total * 100) if total > 0 else 0), 2)
Percentage(amount, total) ==
    IF DecLt(DecZero, total)
    THEN Dec(RoundedHundredths(Cents(amount), Cents(total)), 2)
    ELSE Dec(0, 2)

\* CategoryAnalyzer(user).analyze(exps), categories.py:24-91; the explanation
\* text is left out.
CategoryAnalyzer_analyze(user, exps) ==
    LET acc == ByCategory([by_category |-> <<>>, currency_code |-> "USD"],
                          ValidExpenses(exps), user, 1)
        total == DecSum([k \in 1..Len(acc.by_category) |-> acc.by_category[k][2]], 1)
        sorted_categories ==
            Top10(StableSort(acc.by_category, LAMBDA a, b : DecLt(b[2], a[2])))
    IN  [by_category |-> acc.by_category,
         currency_code |-> acc.currency_code,
         top_categories |->
             [k \in 1..Len(sorted_categories) |->
                 [category |-> sorted_categories[k][1],
                  amount |-> sorted_categories[k][2],
                  percentage |-> Percentage(sorted_categories[k][2], total)]]]

\* The variant that looks no group up.
GroupEntryName_NeverLooksUp(grps, group_id) ==
    IF group_id = 0 THEN <<"No Group">> ELSE <<"Group">> \o NatDigits(group_id)

\* Lines 57-63 of groups.py: the name of the group of the lookup, or
\* "No Group" if group_id == 0 else f"Group {group_id}"
GroupEntryName(grps, group_id) ==
    LET group == GroupLookup(grps, group_id) IN
    IF group # None THEN <<group[1].name>>
    ELSE IF group_id = 0 THEN <<"No Group">>
    ELSE <<"Group">> \o NatDigits(group_id)

\* Lines 53-75 of groups.py for one users list: the entries of the user
\* added to the expense's group.
RECURSIVE GroupOfUsers(_, _, _, _, _)
GroupOfUsers(acc, expense, user, grps, i) ==
    IF i > Len(expense.users) THEN acc
    ELSE LET user_data == expense.users[i]
             group_id == expense.group_id
             group == GroupLookup(grps, group_id)
             group_name == GroupEntryName(grps, group_id)
             member_count == IF group # None THEN Len(group[1].members) ELSE 0
             old == IF group_id \in DictKeys(acc.by_group)
                    THEN DictGet(acc.by_group, group_id)
                    ELSE [name |-> <<"Unknown">>, total_spending |-> DecZero,
                          member_count |-> 0, expense_count |-> 0]
         IN  GroupOfUsers(
                 IF UserIdOf(user_data) # user THEN acc
                 ELSE [by_group |->
                           DictSet(acc.by_group, group_id,
                               [name |-> group_name,
                                total_spending |->
                                    DecAdd(old.total_spending,
                                           ShareOf(user_data, "paid_share")),
                                member_count |-> member_count,
                                expense_count |-> old.expense_count + 1]),
                       currency_code |-> expense.currency_code],
                 expense, user, grps, i + 1)

RECURSIVE ByGroup(_, _, _, _, _)
ByGroup(acc, valid, user, grps, i) ==
    IF i > Len(valid) THEN acc
    ELSE ByGroup(GroupOfUsers(acc, valid[i], user, grps, 1), valid, user, grps, i + 1)

\* GroupAnalyzer(user).analyze(exps, grps), groups.py:24-121; the explanation
\* text is left out.
GroupAnalyzer_analyze(user, exps, grps) ==
    LET acc == ByGroup([by_group |-> <<>>, currency_code |-> "USD"],
                       ValidExpenses(exps), user, grps, 1)
        sorted_groups ==
            Top10(StableSort(acc.by_group,
                      LAMBDA a, b : DecLt(b[2].total_spending, a[2].total_spending)))
    IN  [by_group |-> acc.by_group,
         currency_code |-> acc.currency_code,
         top_groups |->
             [k \in 1..Len(sorted_groups) |->
                 [group_id |-> ReportedGroupId(sorted_groups[k][1]),
                  name |-> sorted_groups[k][2].name,
                  total_spending |-> sorted_groups[k][2].total_spending,
                  member_count |-> sorted_groups[k][2].member_count,
                  expense_count |-> sorted_groups[k][2].expense_count]]]

----------------------------------------------------------------------------
(* auth/sessions.py: SessionManager *)

\* hmac.new(SESSION_SECRET_KEY, session_id, sha256).hexdigest(), as a number
\* that differs from one session id to the next.
Signature(session_id) == (session_id * 31 + 7) % 97

\* _sign_session_id: f"{session_id}.{signature}" as the pair of its parts.
SignSessionId(session_id) == <<session_id, Signature(session_id)>>

\* _verify_session_id: the session id when the signature is the expected
\* one, None otherwise.
VerifySessionId(signed_session) ==
    IF Len(signed_session) # 2 THEN None
    ELSE IF signed_session[2] = Signature(signed_session[1])
         THEN Some(signed_session[1])
         ELSE None

\* dict.pop(key, None): the dict without the key.
Pop(dict, key) == [k \in DOMAIN dict \ {key} |-> dict[k]]

\* dict[key] = value
Put(dict, key, value) ==
    [k \in DOMAIN dict \cup {key} |-> IF k = key THEN value ELSE dict[k]]

\* The variant of lines 112-114 that leaves the old session stored.
RemoveOldSession_KeepsIt(sessions, user_sessions, user) == sessions

\* Lines 112-114 of create_session: _sessions without the session that
\* _user_sessions holds for the user.
RemoveOldSession(sessions, user_sessions, user) ==
    IF user \in DOMAIN user_sessions
    THEN Pop(sessions, user_sessions[user])
    ELSE sessions

\* Lines 198-204 of cleanup_expired_sessions: both dicts without the expired
\* sessions.
WithoutExpired(sessions, user_sessions) ==
    LET expired == {sid \in DOMAIN sessions : sessions[sid].is_expired}
        owners == {sessions[sid].splitwise_user_id : sid \in expired}
    IN  [_sessions |-> [sid \in DOMAIN sessions \ expired |-> sessions[sid]],
         _user_sessions |->
             [u \in DOMAIN user_sessions \ owners |-> user_sessions[u]]]

----------------------------------------------------------------------------
(* main.py: process_data *)

\* Counter(e.currency_code for e in expenses if not e.deleted_at and
\* e.currency_code).most_common(1)[0][0]: the most frequent code, the first
\* one counted among equals; without any, the first expense's code or the
\* base currency.
DetectOriginalCurrency(exps, base) ==
    LET live == {i \in 1..Len(exps) :
                    ~exps[i].deleted_at /\ exps[i].currency_code # ""}
        count(c) == Cardinality({i \in live : exps[i].currency_code = c})
        first(c) == CHOOSE i \in live :
                        /\ exps[i].currency_code = c
                        /\ \A j \in live : exps[j].currency_code = c => i <= j
        best == CHOOSE i \in live :
                    /\ first(exps[i].currency_code) = i
                    /\ \A j \in live :
                         \/ count(exps[j].currency_code) < count(exps[i].currency_code)
                         \/ /\ count(exps[j].currency_code) = count(exps[i].currency_code)
                            /\ i <= first(exps[j].currency_code)
    IN  IF Len(exps) = 0 THEN base
        ELSE IF live # {} THEN exps[best].currency_code
        ELSE IF exps[1].currency_code # "" THEN exps[1].currency_code
        ELSE base

\* conversion_rate = EXCHANGE_RATES[base_currency] / EXCHANGE_RATES[original_currency],
\* kept as a quotient in lowest terms.
ConversionRate(base, original) ==
    LET b == EXCHANGE_RATES[base]
        o == EXCHANGE_RATES[original]
    IN  [num |-> b \div GCD(b, o), den |-> o \div GCD(b, o)]

\* A displayed amount: the cents of d times a rate, as a quotient of cents.
Times(d, rate) == [num |-> Cents(d) * rate.num, den |-> rate.den]

TimesEach(dict, rate) ==
    [i \in 1..Len(dict) |-> <<dict[i][1], Times(dict[i][2], rate)>>]

\* Whether process_data converts the insights for display.
ConvertsBack(base, original) ==
    original # base /\ original \in DOMAIN EXCHANGE_RATES

\* The spending and balance insights as process_data returns them: relabelled
\* with the original currency and, when it is a known currency other than the
\* base, multiplied by conversion_rate.
DisplayInsights(sp, bal, original, base, count) ==
    LET rate == IF ConvertsBack(base, original)
                THEN ConversionRate(base, original)
                ELSE [num |-> 1, den |-> 1]
    IN  [run |-> TRUE, raised |-> FALSE,
         spending |->
            [total_spending |-> Times(sp.total_spending, rate),
             currency_code |-> original,
             monthly_breakdown |-> TimesEach(sp.monthly_breakdown, rate),
             quarterly_breakdown |-> TimesEach(sp.quarterly_breakdown, rate),
             yearly_breakdown |-> TimesEach(sp.yearly_breakdown, rate),
             spending_trend |-> sp.spending_trend],
         balance |->
            [net_balance |-> Times(bal.net_balance, rate),
             currency_code |-> original,
             owed_to_user |-> Times(bal.owed_to_user, rate),
             user_owes |-> Times(bal.user_owes, rate),
             trend_over_time |-> TimesEach(bal.trend_over_time, rate),
             by_person |-> TimesEach(bal.by_person, rate)],
         data_summary |->
            [total_expenses |-> count, original_currency |-> original,
             base_currency |-> base]]

----------------------------------------------------------------------------
(* main.py: the module-level state and the request handlers *)

\* process_data(expenses, groups, current_user_id, base_currency), main.py:
\* 82-262, as one call: the exception of the normalizer, or what is returned.
\* Of the insights returned the spending, the balance and the summary are
\* kept.
process_data(exps, grps, user, base) ==
    LET n == DataNormalizer(base)
        out == IF n.raised THEN [raised |-> TRUE, error |-> n.error]
               ELSE normalize_expenses(exps, n.base_currency)
    IN  IF out.raised THEN [run |-> TRUE, raised |-> TRUE, error |-> out.error]
        ELSE DisplayInsights(SpendingAnalyzer_analyze(user, out.expenses),
                             BalanceAnalyzer_analyze(user, out.expenses),
                             DetectOriginalCurrency(exps, base), base,
                             Len(out.expenses))

\* Lines 457-465, 604-617 and 679-690: the expenses, the groups and the user
\* id are stored, then process_data is called and, unless it raises, its
\* result stored as current_data.  `returned` is what the call
\* process_data(exps, grps, user, base_currency) returns or raises; `raised`
\* tells which.
StoreThenProcess(state, exps, grps, user, returned) ==
    LET stored == [state EXCEPT !.current_expenses = exps,
                                !.current_groups = grps,
                                !.current_user_id = user]
    IN  IF returned.raised THEN [state |-> stored, raised |-> TRUE]
        ELSE [state |-> [stored EXCEPT !.current_data = returned],
              raised |-> FALSE]

\* auth/oauth.py, validate_oauth_state: state in _oauth_states
validate_oauth_state(states, state) == state \in states

\* main.py:389: `state and not validate_oauth_state(state)`, for a state that
\* is None or <<value>>.
StateRejected(states, state) ==
    state # None /\ ~validate_oauth_state(states, state[1])

----------------------------------------------------------------------------
(* Inputs: expenses as models/schemas.py Expense declares them *)

Users == {1, 2, 3}

\* The user objects of the payloads; the third has the last name "None" the
\* service sends for a missing one.
UserInfo(i) ==
    IF i = 1 THEN [id |-> 1, first_name |-> "Test"]
    ELSE IF i = 2 THEN [id |-> 2, first_name |-> "Friend"]
    ELSE [id |-> i, first_name |-> "Friend", last_name |-> "None"]

\* A share string with two decimals, as the service sends them.
Share(cents) == DecimalStr(Dec(cents, 2))

UserData2(i, paid, owed) ==
    [user |-> UserInfo(i), paid_share |-> paid, owed_share |-> owed]

Edge(f, t, amount, code) ==
    [from_user |-> f, to_user |-> t, amount |-> amount, currency_code |-> code]

\* A date at midnight; Date is the first day of a month.
DateOn(y, m, d) == [year |-> y, month |-> m, day |-> d]

Date(y, m) == DateOn(y, m, 1)

\* The day a run starts, after every date of the expenses.
Today == DayNumber(DateOn(2024, 7, 1))

\* An Expense.  group_id 0 stands for both None and 0, which every reader
\* makes one by `expense.group_id or 0`; category "" stands for None, which
\* `expense.category or "Uncategorized"` treats alike.  A description is the
\* sequence of its whitespace-separated words.
MkExp(payment, deleted, code, date, cost, users, repayments) ==
    [id |-> 1, group_id |-> 0, description |-> <<"Expense">>, category |-> "",
     payment |-> payment, deleted_at |-> deleted, currency_code |-> code,
     date |-> date, cost |-> cost, users |-> users, repayments |-> repayments]

\* The expense e under another id, in another group.
Identified(e, id, group_id) == [e EXCEPT !.id = id, !.group_id = group_id]

\* The expense e with another description and category.
Described(e, description, category) ==
    [e EXCEPT !.description = description, !.category = category]

\* A Group, with its members as user ids.
MkGroup(id, name, members) == [id |-> id, name |-> name, members |-> members]

MkExpense(code, cost, users, repayments) ==
    MkExp(FALSE, FALSE, code, Date(2024, 1), cost, users, repayments)

\* The lists of at most n elements of S.
SeqsUpTo(S, n) == UNION {[1..k -> S] : k \in 0..n}

\* Currency codes of the expenses normalized: three of the rate table, one
\* written in lower case, and one the table does not hold.
SourceCurrencies == {"USD", "EUR", "INR", "eur", "JPY"}

\* Base currencies explored (see QuantizeConverted).
BaseCurrencies == {"USD", "EUR", "INR"}

\* The expenses handed to normalize_expense, in every source currency: a
\* split without edges, a payload without owed_share and with one-digit
\* fractions, an expense with one edge, one with two edges, and one whose
\* edge is labelled USD whatever the expense's currency.
NormExpenses ==
    UNION {
      { MkExpense(c, Dec(11000, 2),
                  <<UserData2(1, <<"1","1","0",".","0","0">>, <<"5","5",".","0","0">>),
                    UserData2(2, <<"0",".","0","0">>, <<"5","5",".","0","0">>)>>,
                  <<>>),
        MkExpense(c, Dec(755, 1),
                  <<[user |-> UserInfo(1), paid_share |-> <<"7","5",".","5">>]>>,
                  <<>>),
        MkExpense(c, Dec(6000, 2),
                  <<UserData2(1, <<"6","0",".","0","0">>, <<"3","0",".","0","0">>),
                    UserData2(2, <<"0",".","0","0">>, <<"3","0",".","0","0">>)>>,
                  <<Edge(2, 1, Dec(3000, 2), c)>>),
        MkExpense(c, Dec(4250, 2),
                  <<UserData2(1, <<"4","2",".","5","0">>, <<"0",".","0","0">>)>>,
                  <<Edge(3, 1, Dec(1250, 2), c), Edge(2, 1, Dec(3000, 2), c)>>),
        MkExpense(c, Dec(7, 0),
                  <<UserData2(2, <<"7">>, <<"3",".","5">>)>>,
                  <<Edge(1, 2, Dec(35, 1), "USD")>>) }
      : c \in SourceCurrencies }

----------------------------------------------------------------------------
(* Specification SpecNormalize: DataNormalizer(base).normalize_expense on   *)
(* one expense, and once more on what it returned.                          *)

InitNormalize ==
    /\ expenses \in {<<e>> : e \in NormExpenses}
    /\ base_currency \in BaseCurrencies
    /\ current_user_id = 1
    /\ pc = "input"
    /\ normalized = NotRun
    /\ renormalized = NotRun
    /\ spending = NotRun
    /\ insights = [u \in Users |-> NotRun]
    /\ original_currency = ""
    /\ display = NotRun
    /\ groups = <<>>
    /\ validation = NotRun
    /\ checks = NotRun
    /\ categories = NotRun
    /\ groups_insight = NotRun
    /\ advanced = NotRun
    /\ now = 0
    /\ calls = {}
    /\ globals = NotRun
    /\ frames = NotRun

NormalizeExpense ==
    /\ pc = "input"
    /\ normalized' =
         [run |-> TRUE,
          out |-> normalize_expense(expenses[1],
                                    DataNormalizer(base_currency).base_currency)]
    /\ pc' = "normalized"
    /\ UNCHANGED <<expenses, current_user_id, base_currency, renormalized,
                   spending, insights, original_currency, display,
                   groups, validation, checks, categories, groups_insight,
                   advanced, now, calls,
                   globals, frames>>

NormalizeAgain ==
    /\ pc = "normalized"
    /\ ~normalized.out.raised
    /\ renormalized' =
         [run |-> TRUE,
          out |-> normalize_expense(normalized.out.expense,
                                    DataNormalizer(base_currency).base_currency)]
    /\ pc' = "renormalized"
    /\ UNCHANGED <<expenses, current_user_id, base_currency, normalized,
                   spending, insights, original_currency, display,
                   groups, validation, checks, categories, groups_insight,
                   advanced, now, calls,
                   globals, frames>>

NextNormalize == NormalizeExpense \/ NormalizeAgain

SpecNormalize == InitNormalize /\ [][NextNormalize]_vars

----------------------------------------------------------------------------
(* Specification SpecBalance: BalanceAnalyzer(u).analyze for every user u   *)
(* of one expense list.                                                     *)

\* Splits as the service sends them (shares and the edges they imply), the
\* two expenses of the test fixture (shares, no edges), in two months.
BalanceSplits(date) ==
    { MkExp(FALSE, FALSE, "USD", date, Dec(6000, 2),
            <<UserData2(1, Share(6000), Share(3000)),
              UserData2(2, Share(0), Share(3000))>>,
            <<Edge(2, 1, Dec(3000, 2), "USD")>>),
      MkExp(FALSE, FALSE, "USD", date, Dec(6000, 2),
            <<UserData2(1, Share(0), Share(3000)),
              UserData2(2, Share(6000), Share(3000))>>,
            <<Edge(1, 2, Dec(3000, 2), "USD")>>),
      MkExp(FALSE, FALSE, "USD", date, Dec(5000, 2),
            <<UserData2(1, Share(5000), Share(2500)),
              UserData2(2, Share(0), Share(2500))>>,
            <<>>),
      MkExp(FALSE, FALSE, "USD", date, Dec(10000, 2),
            <<UserData2(1, Share(10000), Share(5000)),
              UserData2(2, Share(0), Share(5000))>>,
            <<>>),
      MkExp(FALSE, FALSE, "EUR", date, Dec(12750, 2),
            <<UserData2(1, Share(12750), Share(8500)),
              UserData2(2, Share(0), Share(3000)),
              UserData2(3, Share(0), Share(1250))>>,
            <<Edge(3, 1, Dec(1250, 2), "EUR"), Edge(2, 1, Dec(3000, 2), "EUR")>>),
      MkExp(FALSE, FALSE, "USD", date, Dec(1750, 2),
            <<UserData2(3, Share(1750), Share(0)),
              UserData2(2, Share(0), Share(500)),
              UserData2(1, Share(0), Share(1250))>>,
            <<Edge(2, 3, Dec(500, 2), "USD"), Edge(1, 3, Dec(1250, 2), "USD")>>) }

\* Settlements: a payment of f to t.
Payment(f, t, cents, date, deleted) ==
    MkExp(TRUE, deleted, "USD", date, Dec(cents, 2),
          <<UserData2(f, Share(cents), Share(0)),
            UserData2(t, Share(0), Share(cents))>>,
          <<Edge(f, t, Dec(cents, 2), "USD")>>)

BalancePayments(date) ==
    { Payment(1, 2, 3000, date, FALSE), Payment(2, 1, 3000, date, FALSE),
      Payment(3, 2, 500, date, FALSE) }

BalanceExpenses ==
    BalanceSplits(Date(2024, 1)) \cup BalanceSplits(Date(2024, 2))
    \cup BalancePayments(Date(2024, 1)) \cup BalancePayments(Date(2024, 2))
    \cup { Payment(1, 2, 3000, Date(2024, 1), TRUE),
           MkExp(FALSE, TRUE, "USD", Date(2024, 1), Dec(6000, 2),
                 <<UserData2(1, Share(6000), Share(3000)),
                   UserData2(2, Share(0), Share(3000))>>,
                 <<Edge(2, 1, Dec(3000, 2), "USD")>>),
           \* a split with a participant outside Users
           MkExp(FALSE, FALSE, "USD", Date(2024, 2), Dec(1600, 2),
                 <<UserData2(1, Share(1600), Share(800)),
                   UserData2(4, Share(0), Share(800))>>,
                 <<Edge(4, 1, Dec(800, 2), "USD")>>) }

InitBalance ==
    /\ expenses \in SeqsUpTo(BalanceExpenses, MaxExpenses)
    /\ base_currency = "USD"
    /\ current_user_id = 1
    /\ pc = "input"
    /\ normalized = NotRun
    /\ renormalized = NotRun
    /\ spending = NotRun
    /\ insights = [u \in Users |-> NotRun]
    /\ original_currency = ""
    /\ display = NotRun
    /\ groups = <<>>
    /\ validation = NotRun
    /\ checks = NotRun
    /\ categories = NotRun
    /\ groups_insight = NotRun
    /\ advanced = NotRun
    /\ now = 0
    /\ calls = {}
    /\ globals = NotRun
    /\ frames = NotRun

BalanceAnalyze(u) ==
    /\ pc = "input"
    /\ ~insights[u].run
    /\ insights' = [insights EXCEPT
                      ![u] = [run |-> TRUE,
                              out |-> BalanceAnalyzer_analyze(u, expenses)]]
    /\ UNCHANGED <<expenses, current_user_id, base_currency, pc, normalized,
                   renormalized, spending, original_currency, display,
                   groups, validation, checks, categories, groups_insight,
                   advanced, now, calls,
                   globals, frames>>

NextBalance == \E u \in Users : BalanceAnalyze(u)

SpecBalance == InitBalance /\ [][NextBalance]_vars

----------------------------------------------------------------------------
(* Specification SpecSpending: SpendingAnalyzer(current_user_id).analyze    *)

\* The two expenses of the test fixture; an expense of another quarter with
\* a one-digit fraction; one of another year whose entry for user 1 has no
\* paid_share; a settlement; a deleted expense; an expense user 1 is no part
\* of.
SpendingExpenses ==
    { MkExp(FALSE, FALSE, "USD", Date(2024, 1), Dec(5000, 2),
            <<UserData2(1, Share(5000), Share(2500)),
              UserData2(2, Share(0), Share(2500))>>, <<>>),
      MkExp(FALSE, FALSE, "USD", Date(2024, 2), Dec(10000, 2),
            <<UserData2(1, Share(10000), Share(5000)),
              UserData2(2, Share(0), Share(5000))>>, <<>>),
      MkExp(FALSE, FALSE, "EUR", Date(2024, 4), Dec(755, 1),
            <<UserData2(1, Share(0), <<"3","7",".","7","5">>),
              UserData2(2, <<"7","5",".","5">>, <<"3","7",".","7","5">>)>>,
            <<Edge(1, 2, Dec(3775, 2), "EUR")>>),
      MkExp(FALSE, FALSE, "USD", Date(2025, 1), Dec(7, 0),
            <<[user |-> UserInfo(1), owed_share |-> <<"3",".","5">>],
              UserData2(2, <<"7">>, <<"3",".","5">>)>>, <<>>),
      Payment(1, 2, 3000, Date(2024, 2), FALSE),
      MkExp(FALSE, TRUE, "USD", Date(2024, 1), Dec(2000, 2),
            <<UserData2(1, Share(2000), Share(1000)),
              UserData2(2, Share(0), Share(1000))>>, <<>>),
      MkExp(FALSE, FALSE, "USD", Date(2024, 1), Dec(1250, 2),
            <<UserData2(2, Share(1250), Share(625)),
              UserData2(3, Share(0), Share(625))>>, <<>>) }

InitSpending ==
    /\ expenses \in SeqsUpTo(SpendingExpenses, MaxExpenses)
    /\ base_currency = "USD"
    /\ current_user_id \in {1, 2}
    /\ pc = "input"
    /\ normalized = NotRun
    /\ renormalized = NotRun
    /\ spending = NotRun
    /\ insights = [u \in Users |-> NotRun]
    /\ original_currency = ""
    /\ display = NotRun
    /\ groups = <<>>
    /\ validation = NotRun
    /\ checks = NotRun
    /\ categories = NotRun
    /\ groups_insight = NotRun
    /\ advanced = NotRun
    /\ now = 0
    /\ calls = {}
    /\ globals = NotRun
    /\ frames = NotRun

SpendingAnalyze ==
    /\ pc = "input"
    /\ spending' = [run |-> TRUE,
                    out |-> SpendingAnalyzer_analyze(current_user_id, expenses)]
    /\ pc' = "done"
    /\ UNCHANGED <<expenses, current_user_id, base_currency, normalized,
                   renormalized, insights, original_currency, display,
                   groups, validation, checks, categories, groups_insight,
                   advanced, now, calls,
                   globals, frames>>

NextSpending == SpendingAnalyze

SpecSpending == InitSpending /\ [][NextSpending]_vars

----------------------------------------------------------------------------
(* Specification SpecProcess: process_data(expenses, groups, 1, base)       *)

ProcessCurrencies == {"USD", "EUR", "JPY"}

ProcessBases == {"USD", "EUR"}

\* In every currency: two splits without edges in two months, a split with
\* the edge the service sends, a deleted split, and a settlement without
\* edges.
ProcessExpenses ==
    UNION {
      { MkExp(FALSE, FALSE, c, Date(2024, 1), Dec(11000, 2),
              <<UserData2(1, Share(11000), Share(5500)),
                UserData2(2, Share(0), Share(5500))>>, <<>>),
        Identified(
            Described(MkExp(FALSE, FALSE, c, Date(2024, 2), Dec(3300, 2),
                            <<UserData2(1, Share(3300), Share(3300))>>, <<>>),
                      <<"Netflix", "Monthly", "Bill">>, "Entertainment"),
            2, 1),
        MkExp(FALSE, FALSE, c, Date(2024, 1), Dec(11000, 2),
              <<UserData2(1, Share(11000), Share(5500)),
                UserData2(2, Share(0), Share(5500))>>,
              <<Edge(2, 1, Dec(5500, 2), c)>>),
        MkExp(FALSE, TRUE, c, Date(2024, 1), Dec(2000, 2),
              <<UserData2(1, Share(2000), Share(2000))>>, <<>>),
        MkExp(TRUE, FALSE, c, Date(2024, 2), Dec(3000, 2),
              <<UserData2(1, Share(3000), Share(0)),
                UserData2(2, Share(0), Share(3000))>>, <<>>) }
      : c \in ProcessCurrencies }

ProcessGroups == {<<>>, <<MkGroup(1, "Test Group", <<1, 2>>)>>}

InitProcess ==
    /\ expenses \in SeqsUpTo(ProcessExpenses, MaxExpenses)
    /\ base_currency \in ProcessBases
    /\ current_user_id = 1
    /\ pc = "start"
    /\ normalized = NotRun
    /\ renormalized = NotRun
    /\ spending = NotRun
    /\ insights = [u \in Users |-> NotRun]
    /\ original_currency = ""
    /\ display = NotRun
    /\ groups \in ProcessGroups
    /\ validation = NotRun
    /\ checks = NotRun
    /\ categories = NotRun
    /\ groups_insight = NotRun
    /\ advanced = NotRun
    /\ now = Today
    /\ calls = {}
    /\ globals = NotRun
    /\ frames = NotRun

\* Lines 89-105: the display currency, from the raw expenses.
ProcessDetectCurrency ==
    /\ pc = "start"
    /\ original_currency' = DetectOriginalCurrency(expenses, base_currency)
    /\ pc' = "detected"
    /\ UNCHANGED <<expenses, current_user_id, base_currency, normalized,
                   renormalized, spending, insights, display,
                   groups, validation, checks, categories, groups_insight,
                   advanced, now, calls,
                   globals, frames>>

\* Lines 107-110: the normalizer is built and the expenses normalized; an
\* exception leaves process_data.
ProcessNormalize ==
    /\ pc = "detected"
    /\ LET n == DataNormalizer(base_currency)
           out == IF n.raised THEN [run |-> TRUE, raised |-> TRUE, error |-> n.error]
                  ELSE normalize_expenses(expenses, n.base_currency)
       IN  /\ normalized' = IF out.raised THEN out
                          ELSE [run |-> TRUE, raised |-> FALSE,
                                expenses |-> out.expenses,
                                groups |-> normalize_groups(groups)]
           /\ pc' = IF out.raised THEN "raised" ELSE "normalized"
           /\ display' = IF out.raised
                         THEN [run |-> TRUE, raised |-> TRUE, error |-> out.error]
                         ELSE display
    /\ UNCHANGED <<expenses, current_user_id, base_currency, renormalized,
                   spending, insights, original_currency,
                   groups, validation, checks, categories, groups_insight,
                   advanced, now, calls,
                   globals, frames>>

\* Mutant: an invalid verification ends process_data.
ProcessVerify_FailsWhenInvalid ==
    /\ pc = "normalized"
    /\ LET out == verify_all(current_user_id, normalized.expenses,
                             normalized.groups)
       IN  /\ validation' = [run |-> TRUE, out |-> out]
           /\ pc' = IF out.is_valid THEN "verified" ELSE "raised"
    /\ UNCHANGED <<expenses, current_user_id, base_currency, normalized,
                   renormalized, spending, insights, original_currency, display,
                   groups, checks, categories, groups_insight,
                   advanced, now, calls,
                   globals, frames>>

\* Lines 112-114: the verifier runs on the normalized expenses and groups;
\* its result is kept, whatever it reports.
ProcessVerify ==
    /\ pc = "normalized"
    /\ validation' = [run |-> TRUE,
                      out |-> verify_all(current_user_id, normalized.expenses,
                                         normalized.groups)]
    /\ pc' = "verified"
    /\ UNCHANGED <<expenses, current_user_id, base_currency, normalized,
                   renormalized, spending, insights, original_currency, display,
                   groups, checks, categories, groups_insight,
                   advanced, now, calls,
                   globals, frames>>

\* Lines 117-118
ProcessSpending ==
    /\ pc = "verified"
    /\ spending' = [run |-> TRUE,
                    out |-> SpendingAnalyzer_analyze(current_user_id,
                                                     normalized.expenses)]
    /\ pc' = "spending"
    /\ UNCHANGED <<expenses, current_user_id, base_currency, normalized,
                   renormalized, insights, original_currency, display,
                   groups, validation, checks, categories, groups_insight,
                   advanced, now, calls,
                   globals, frames>>

\* Lines 120-121
ProcessBalance ==
    /\ pc = "spending"
    /\ insights' = [insights EXCEPT
                      ![current_user_id] =
                          [run |-> TRUE,
                           out |-> BalanceAnalyzer_analyze(current_user_id,
                                                           normalized.expenses)]]
    /\ pc' = "balance"
    /\ UNCHANGED <<expenses, current_user_id, base_currency, normalized,
                   renormalized, spending, original_currency, display,
                   groups, validation, checks, categories, groups_insight,
                   advanced, now, calls,
                   globals, frames>>

\* Lines 123-124
ProcessCategory ==
    /\ pc = "balance"
    /\ categories' = [run |-> TRUE,
                      out |-> CategoryAnalyzer_analyze(current_user_id,
                                                       normalized.expenses)]
    /\ pc' = "categories"
    /\ UNCHANGED <<expenses, current_user_id, base_currency, normalized,
                   renormalized, spending, insights, original_currency, display,
                   groups, validation, checks, groups_insight,
                   advanced, now, calls,
                   globals, frames>>

\* Lines 126-127
ProcessGroup ==
    /\ pc = "categories"
    /\ groups_insight' = [run |-> TRUE,
                          out |-> GroupAnalyzer_analyze(current_user_id,
                                                        normalized.expenses,
                                                        normalized.groups)]
    /\ pc' = "groups"
    /\ UNCHANGED <<expenses, current_user_id, base_currency, normalized,
                   renormalized, spending, insights, original_currency, display,
                   groups, validation, checks, categories,
                   advanced, now, calls,
                   globals, frames>>

\* Lines 129-135: the six analyses of AdvancedAnalyzer, with the default
\* multiplier 3.0 and one month ahead.
ProcessAdvanced ==
    /\ pc = "groups"
    /\ advanced' =
          [run |-> TRUE,
           anomalies |-> detect_anomalies(current_user_id, normalized.expenses,
                                          Multiplier(3, 1)),
           subscriptions |-> detect_subscriptions(current_user_id,
                                                  normalized.expenses),
           settlement |-> analyze_settlement_efficiency(current_user_id,
                                                        normalized.expenses, now),
           cash_flow |-> analyze_cash_flow(current_user_id, normalized.expenses),
           prediction |-> predict_balance(current_user_id, normalized.expenses, 1),
           friction |-> rank_friction(current_user_id, normalized.expenses,
                                      normalized.groups, now)]
    /\ pc' = "advanced"
    /\ UNCHANGED <<expenses, current_user_id, base_currency, normalized,
                   renormalized, spending, insights, original_currency, display,
                   groups, validation, checks, categories, groups_insight,
                   now, calls,
                   globals, frames>>

\* Lines 140-260: the insights converted for display and returned.
ProcessDisplay ==
    /\ pc = "advanced"
    /\ display' = DisplayInsights(spending.out, insights[current_user_id].out,
                                  original_currency, base_currency,
                                  Len(normalized.expenses))
    /\ pc' = "returned"
    /\ UNCHANGED <<expenses, current_user_id, base_currency, normalized,
                   renormalized, spending, insights, original_currency,
                   groups, validation, checks, categories, groups_insight,
                   advanced, now, calls,
                   globals, frames>>

NextProcess ==
    \/ ProcessDetectCurrency
    \/ ProcessNormalize
    \/ ProcessVerify
    \/ ProcessSpending
    \/ ProcessBalance
    \/ ProcessCategory
    \/ ProcessGroup
    \/ ProcessAdvanced
    \/ ProcessDisplay

SpecProcess == InitProcess /\ [][NextProcess]_vars

ProcessLabels ==
    {"start", "detected", "normalized", "verified", "spending", "balance",
     "categories", "groups", "advanced", "returned", "raised"}

\* process_data goes on to another place.
ProcessAdvances ==
    /\ pc \notin {"returned", "raised"}
    /\ pc' \in ProcessLabels
    /\ pc' # pc

\* process_data is sequential code that waits for nothing: until it has
\* returned or raised it takes its next step.  Every step of NextProcess
\* changes pc, so the steps that change pc are the steps of NextProcess.
SpecProcessFair == SpecProcess /\ WF_pc(ProcessAdvances)

----------------------------------------------------------------------------
(* Specification SpecVerify: the methods of DataVerifier(1) on one expense  *)
(* list and one group list.                                                 *)

\* A split of two users in USD, by its cents.
Split2(paid1, owed1, owed2) ==
    MkExp(FALSE, FALSE, "USD", Date(2024, 1), Dec(paid1, 2),
          <<UserData2(1, Share(paid1), Share(owed1)),
            UserData2(2, Share(0), Share(owed2))>>, <<>>)

\* The valid and the invalid expense of the test fixtures; expenses whose
\* totals differ by one and by two cents; a deleted invalid expense;
\* settlements whose edges do and do not add up to the cost, and one whose
\* shares differ; an expense that owes more than was paid; the expenses a
\* file import makes of a row without and with a payer; a balanced expense
\* in another currency than its group's; an expense with a participant that
\* carries no user id.
VerifyExpenses ==
    { Identified(Split2(10000, 5000, 5000), 1, 1),
      Identified(Split2(10000, 5000, 4000), 2, 1),
      Identified([Split2(1000, 500, 499) EXCEPT !.currency_code = "EUR"], 3, 2),
      Identified(Split2(1000, 500, 498), 4, 0),
      Identified([Split2(10000, 5000, 4000) EXCEPT !.deleted_at = TRUE], 5, 1),
      Identified(Payment(1, 2, 3000, Date(2024, 1), FALSE), 6, 1),
      Identified([Payment(1, 2, 3000, Date(2024, 1), FALSE) EXCEPT
                    !.repayments = <<Edge(1, 2, Dec(2000, 2), "USD")>>], 7, 0),
      Identified(Split2(10000, 5000, 6000), 8, 1),
      Identified(MkExp(FALSE, FALSE, "USD", Date(2024, 1), Dec(1200, 2),
                       <<>>, <<>>), 9, 3),
      Identified(Split2(2000, 1000, 1000), 10, 2),
      Identified([Payment(1, 2, 3000, Date(2024, 1), FALSE) EXCEPT
                    !.users = <<UserData2(1, Share(3000), Share(0)),
                                UserData2(2, Share(0), Share(2000))>>], 11, 1),
      Identified(MkExp(FALSE, FALSE, "USD", Date(2024, 1), Dec(125, 1),
                       <<[user |-> [id |-> 1, first_name |-> "Test"],
                          paid_share |-> <<"1", "2", ".", "5">>,
                          owed_share |-> <<"0">>]>>, <<>>), 12, 0),
      Identified(MkExp(FALSE, FALSE, "USD", Date(2024, 1), Dec(500, 2),
                       <<UserData2(1, Share(500), Share(500)),
                         [user |-> [first_name |-> "Guest"],
                          paid_share |-> Share(0),
                          owed_share |-> Share(300)]>>, <<>>), 13, 1) }

VerifyGroups == { <<>>, <<MkGroup(1, "Test Group", <<>>)>> }

VerifyMethods == {"expense_totals", "group_balances"}

InitVerify ==
    /\ expenses \in SeqsUpTo(VerifyExpenses, MaxExpenses)
    /\ groups \in VerifyGroups
    /\ base_currency = "USD"
    /\ current_user_id = 1
    /\ pc = "input"
    /\ normalized = NotRun
    /\ renormalized = NotRun
    /\ spending = NotRun
    /\ insights = [u \in Users |-> NotRun]
    /\ original_currency = ""
    /\ display = NotRun
    /\ validation = NotRun
    /\ checks = [m \in VerifyMethods |-> NotRun]
    /\ categories = NotRun
    /\ groups_insight = NotRun
    /\ advanced = NotRun
    /\ now = 0
    /\ calls = {}
    /\ globals = NotRun
    /\ frames = NotRun

VerifyExpenseTotals ==
    /\ ~checks["expense_totals"].run
    /\ checks' = [checks EXCEPT
                    !["expense_totals"] =
                        [run |-> TRUE, out |-> verify_expense_totals(expenses)]]
    /\ UNCHANGED <<expenses, current_user_id, base_currency, pc, normalized,
                   renormalized, spending, insights, original_currency, display,
                   groups, validation, categories, groups_insight, advanced,
                   now, calls,
                   globals, frames>>

VerifyGroupBalances ==
    /\ ~checks["group_balances"].run
    /\ checks' = [checks EXCEPT
                    !["group_balances"] =
                        [run |-> TRUE,
                         out |-> verify_group_balances(expenses, groups)]]
    /\ UNCHANGED <<expenses, current_user_id, base_currency, pc, normalized,
                   renormalized, spending, insights, original_currency, display,
                   groups, validation, categories, groups_insight, advanced,
                   now, calls,
                   globals, frames>>

VerifyAll ==
    /\ ~validation.run
    /\ validation' = [run |-> TRUE,
                      out |-> verify_all(current_user_id, expenses, groups)]
    /\ UNCHANGED <<expenses, current_user_id, base_currency, pc, normalized,
                   renormalized, spending, insights, original_currency, display,
                   groups, checks, categories, groups_insight, advanced,
                   now, calls,
                   globals, frames>>

NextVerify == VerifyExpenseTotals \/ VerifyGroupBalances \/ VerifyAll

SpecVerify == InitVerify /\ [][NextVerify]_vars

----------------------------------------------------------------------------
(* Specification SpecClock: analyze_settlement_efficiency and rank_friction *)
(* of AdvancedAnalyzer(1), called on one expense list while the clock runs. *)

\* A split in which user 2 owes, a split in which user 1 owes, a settlement,
\* a deleted settlement, a split of an earlier month in a group.
ClockExpenses ==
    { Identified(Split2(6000, 3000, 3000), 1, 0),
      Identified(MkExp(FALSE, FALSE, "USD", DateOn(2024, 6, 15), Dec(4000, 2),
                       <<UserData2(1, Share(0), Share(2000)),
                         UserData2(2, Share(4000), Share(2000))>>, <<>>), 2, 1),
      Identified(Payment(2, 1, 3000, DateOn(2024, 6, 20), FALSE), 3, 0),
      Identified(Payment(2, 1, 3000, DateOn(2024, 6, 1), TRUE), 4, 0),
      Identified(MkExp(FALSE, FALSE, "USD", DateOn(2024, 3, 1), Dec(900, 2),
                       <<UserData2(1, Share(900), Share(300)),
                         UserData2(2, Share(0), Share(300)),
                         UserData2(3, Share(0), Share(300))>>, <<>>), 5, 1) }

InitClock ==
    /\ expenses \in SeqsUpTo(ClockExpenses, MaxExpenses)
    /\ groups \in VerifyGroups
    /\ base_currency = "USD"
    /\ current_user_id = 1
    /\ pc = "input"
    /\ normalized = NotRun
    /\ renormalized = NotRun
    /\ spending = NotRun
    /\ insights = [u \in Users |-> NotRun]
    /\ original_currency = ""
    /\ display = NotRun
    /\ validation = NotRun
    /\ checks = NotRun
    /\ categories = NotRun
    /\ groups_insight = NotRun
    /\ advanced = NotRun
    /\ now = Today
    /\ calls = {}
    /\ globals = NotRun
    /\ frames = NotRun

\* A day passes.
Tick ==
    /\ now < Today + MaxTicks
    /\ now' = now + 1
    /\ UNCHANGED <<expenses, current_user_id, base_currency, pc, normalized,
                   renormalized, spending, insights, original_currency, display,
                   groups, validation, checks, categories, groups_insight,
                   advanced, calls,
                   globals, frames>>

CallSettlementEfficiency ==
    /\ Cardinality(calls) < MaxCalls
    /\ calls' = calls \cup
                  {[op |-> "analyze_settlement_efficiency", at |-> now,
                    out |-> analyze_settlement_efficiency(current_user_id,
                                                          expenses, now)]}
    /\ UNCHANGED <<expenses, current_user_id, base_currency, pc, normalized,
                   renormalized, spending, insights, original_currency, display,
                   groups, validation, checks, categories, groups_insight,
                   advanced, now,
                   globals, frames>>

CallRankFriction ==
    /\ Cardinality(calls) < MaxCalls
    /\ calls' = calls \cup
                  {[op |-> "rank_friction", at |-> now,
                    out |-> rank_friction(current_user_id, expenses, groups,
                                          now)]}
    /\ UNCHANGED <<expenses, current_user_id, base_currency, pc, normalized,
                   renormalized, spending, insights, original_currency, display,
                   groups, validation, checks, categories, groups_insight,
                   advanced, now,
                   globals, frames>>

NextClock == Tick \/ CallSettlementEfficiency \/ CallRankFriction

SpecClock == InitClock /\ [][NextClock]_vars

----------------------------------------------------------------------------
(* Specification SpecTrend: SpendingAnalyzer(1).analyze on a list with one  *)
(* expense in each of the first months of a year.                           *)

\* What user 1 pays in a month, in cents.
TrendAmounts == {4000, 9000, 10000, 11000}

\* The expense of month m in which user 1 pays the cents c.
MonthExpense(m, c) ==
    MkExp(FALSE, FALSE, "USD", Date(2024, m), Dec(c, 2),
          <<UserData2(1, Share(c), Share(c))>>, <<>>)

InitTrend ==
    /\ \E n \in 0..MaxMonths :
         \E paid \in [1..n -> TrendAmounts] :
            expenses = [m \in 1..n |-> MonthExpense(m, paid[m])]
    /\ groups = <<>>
    /\ base_currency = "USD"
    /\ current_user_id = 1
    /\ pc = "input"
    /\ normalized = NotRun
    /\ renormalized = NotRun
    /\ spending = NotRun
    /\ insights = [u \in Users |-> NotRun]
    /\ original_currency = ""
    /\ display = NotRun
    /\ validation = NotRun
    /\ checks = NotRun
    /\ categories = NotRun
    /\ groups_insight = NotRun
    /\ advanced = NotRun
    /\ now = 0
    /\ calls = {}
    /\ globals = NotRun
    /\ frames = NotRun

NextTrend == SpendingAnalyze

SpecTrend == InitTrend /\ [][NextTrend]_vars

----------------------------------------------------------------------------
(* Specification SpecAdvanced: AdvancedAnalyzer(1) detecting anomalies and  *)
(* subscriptions and predicting the balance on a list of dated entries.     *)

\* The date so many days after 2024-01-01.
DateAfter(days) ==
    CHOOSE date \in {DateOn(2024, m, d) : m \in 1..12, d \in 1..31} :
        /\ date.day <= DaysInMonth(2024, date.month)
        /\ DayNumber(date) = DayNumber(DateOn(2024, 1, 1)) + days

EntryKinds == {"bill", "renewal", "rent", "unpaid", "deleted", "settlement"}

\* The entry at place k of a list, the places being 30 days apart and a late
\* entry following its place by 45 days: a Netflix bill of 15.00 paid by user 1, a
\* late renewal of 18.00 under the same first three words, a rent of 40.00
\* user 1 fronts, a bill the friend paid, a deleted bill and a settlement.
Entry(kind, k) ==
    LET on == DateAfter(30 * (k - 1))
        late == DateAfter(30 * (k - 1) + 45)
        own(cents) == <<UserData2(1, Share(cents), Share(cents))>>
        bill == <<"Netflix", "Monthly", "Bill">>
    IN  CASE kind = "bill" ->
               Described(MkExp(FALSE, FALSE, "USD", on, Dec(1500, 2), own(1500), <<>>),
                         bill, "Entertainment")
          [] kind = "renewal" ->
               Described(MkExp(FALSE, FALSE, "EUR", late, Dec(1800, 2), own(1800), <<>>),
                         <<"NETFLIX", "monthly", "Bill", "Renewal">>, "TV")
          [] kind = "rent" ->
               Described(MkExp(FALSE, FALSE, "USD", on, Dec(4000, 2),
                               <<UserData2(1, Share(4000), Share(2000)),
                                 UserData2(2, Share(0), Share(2000))>>,
                               <<Edge(2, 1, Dec(2000, 2), "USD")>>),
                         <<"Rent">>, "Housing")
          [] kind = "unpaid" ->
               Described(MkExp(FALSE, FALSE, "USD", on, Dec(1500, 2),
                               <<UserData2(1, Share(0), Share(1500)),
                                 UserData2(2, Share(1500), Share(0))>>,
                               <<Edge(1, 2, Dec(1500, 2), "USD")>>),
                         bill, "Entertainment")
          [] kind = "deleted" ->
               Described(MkExp(FALSE, TRUE, "USD", on, Dec(1500, 2), own(1500), <<>>),
                         bill, "Entertainment")
          [] kind = "settlement" ->
               Described(MkExp(TRUE, FALSE, "USD", on, Dec(1500, 2),
                               <<UserData2(1, Share(1500), Share(0)),
                                 UserData2(2, Share(0), Share(1500))>>,
                               <<Edge(2, 1, Dec(1500, 2), "USD")>>),
                         bill, "")

\* The threshold multipliers explored; the default is 3.0 (line 39).
Multipliers ==
    {Multiplier(-1, 2), Multiplier(0, 1), Multiplier(1, 1), Multiplier(3, 1)}

InitAdvanced ==
    /\ \E n \in 0..MaxEntries :
         \E kinds \in [1..n -> EntryKinds] :
            expenses = [k \in 1..n |-> Identified(Entry(kinds[k], k), k, 0)]
    /\ groups = <<>>
    /\ base_currency = "USD"
    /\ current_user_id = 1
    /\ pc = "input"
    /\ normalized = NotRun
    /\ renormalized = NotRun
    /\ spending = NotRun
    /\ insights = [u \in Users |-> NotRun]
    /\ original_currency = ""
    /\ display = NotRun
    /\ validation = NotRun
    /\ checks = NotRun
    /\ categories = NotRun
    /\ groups_insight = NotRun
    /\ advanced = NotRun
    /\ now = 0
    /\ calls = {}
    /\ globals = NotRun
    /\ frames = NotRun

CallDetectAnomalies(threshold_multiplier) ==
    /\ Cardinality(calls) < MaxCalls
    /\ calls' = calls \cup
                  {[op |-> "detect_anomalies",
                    at |-> <<threshold_multiplier.num, threshold_multiplier.den>>,
                    out |-> detect_anomalies(current_user_id, expenses,
                                             threshold_multiplier)]}
    /\ UNCHANGED <<expenses, current_user_id, base_currency, pc, normalized,
                   renormalized, spending, insights, original_currency, display,
                   groups, validation, checks, categories, groups_insight,
                   advanced, now,
                   globals, frames>>

CallDetectSubscriptions ==
    /\ Cardinality(calls) < MaxCalls
    /\ calls' = calls \cup
                  {[op |-> "detect_subscriptions", at |-> None,
                    out |-> detect_subscriptions(current_user_id, expenses)]}
    /\ UNCHANGED <<expenses, current_user_id, base_currency, pc, normalized,
                   renormalized, spending, insights, original_currency, display,
                   groups, validation, checks, categories, groups_insight,
                   advanced, now,
                   globals, frames>>

CallPredictBalance ==
    /\ Cardinality(calls) < MaxCalls
    /\ calls' = calls \cup
                  {[op |-> "predict_balance", at |-> <<1>>,
                    out |-> predict_balance(current_user_id, expenses, 1)]}
    /\ UNCHANGED <<expenses, current_user_id, base_currency, pc, normalized,
                   renormalized, spending, insights, original_currency, display,
                   groups, validation, checks, categories, groups_insight,
                   advanced, now,
                   globals, frames>>

NextAdvanced ==
    \/ \E threshold_multiplier \in Multipliers :
          CallDetectAnomalies(threshold_multiplier)
    \/ CallDetectSubscriptions
    \/ CallPredictBalance

SpecAdvanced == InitAdvanced /\ [][NextAdvanced]_vars

----------------------------------------------------------------------------
(* Specification SpecInsight: CategoryAnalyzer(1).analyze,                  *)
(* GroupAnalyzer(1).analyze and AdvancedAnalyzer(1).analyze_cash_flow, each *)
(* called once on one expense list.                                         *)

\* An expense of a category in a group, dated the first of January 2024.
InsightExpense(category, group_id, payment, deleted, cost, users) ==
    Identified(Described(MkExp(payment, deleted, "USD", Date(2024, 1),
                               Dec(cost, 2), users, <<>>),
                         <<"Expense">>, category),
               1, group_id)

\* Expenses of user 1: one paid in front in a group of the list, one without
\* category and group, one paid for nobody else in a group the list does not
\* hold, one a friend paid, a deleted one, a settlement, one of two friends,
\* and one as large as the second in another category.
InsightExpenses ==
    { InsightExpense("Food", 1, FALSE, FALSE, 3000,
                     <<UserData2(1, Share(3000), Share(1500)),
                       UserData2(2, Share(0), Share(1500))>>),
      InsightExpense("", 0, FALSE, FALSE, 1000,
                     <<UserData2(1, Share(1000), Share(500)),
                       UserData2(2, Share(0), Share(500))>>),
      InsightExpense("Food", 2, FALSE, FALSE, 500,
                     <<UserData2(1, Share(500), Share(500))>>),
      InsightExpense("Travel", 1, FALSE, FALSE, 4000,
                     <<UserData2(1, Share(0), Share(2000)),
                       UserData2(2, Share(4000), Share(2000))>>),
      InsightExpense("Food", 1, FALSE, TRUE, 3000,
                     <<UserData2(1, Share(3000), Share(1500)),
                       UserData2(2, Share(0), Share(1500))>>),
      InsightExpense("Food", 1, TRUE, FALSE, 3000,
                     <<UserData2(1, Share(3000), Share(0)),
                       UserData2(2, Share(0), Share(3000))>>),
      InsightExpense("Travel", 0, FALSE, FALSE, 3000,
                     <<UserData2(2, Share(3000), Share(1500)),
                       UserData2(3, Share(0), Share(1500))>>),
      InsightExpense("Travel", 2, FALSE, FALSE, 1000,
                     <<UserData2(1, Share(1000), Share(500)),
                       UserData2(3, Share(0), Share(500))>>) }

\* Names of further categories.
CategoryNames ==
    <<"Rent", "Utilities", "Groceries", "Dining", "Fuel", "Transit", "Health",
      "Insurance", "Gifts", "Books", "Music", "Sports", "Pets">>

\* n expenses user 1 paid alone, each of 10.00, each in a category and a
\* group of its own that the groups list does not hold.
RECURSIVE Further(_)
Further(n) ==
    IF n = 0 THEN <<>>
    ELSE Append(Further(n - 1),
                InsightExpense(CategoryNames[n], 10 + n, FALSE, FALSE, 1000,
                               <<UserData2(1, Share(1000), Share(1000))>>))

\* No group, the group of the fixtures, and with it the group of id 0 that
\* the service lists for the expenses outside every group.
InsightGroups ==
    { <<>>,
      <<MkGroup(1, "Test Group", <<>>)>>,
      <<MkGroup(0, "Non-group expenses", <<>>), MkGroup(1, "Test Group", <<>>)>> }

InitInsight ==
    /\ \E first \in SeqsUpTo(InsightExpenses, MaxExpenses) :
         \E n \in {0, MaxCategories} : expenses = first \o Further(n)
    /\ groups \in InsightGroups
    /\ base_currency = "USD"
    /\ current_user_id = 1
    /\ pc = "input"
    /\ normalized = NotRun
    /\ renormalized = NotRun
    /\ spending = NotRun
    /\ insights = [u \in Users |-> NotRun]
    /\ original_currency = ""
    /\ display = NotRun
    /\ validation = NotRun
    /\ checks = NotRun
    /\ categories = NotRun
    /\ groups_insight = NotRun
    /\ advanced = NotRun
    /\ now = Today
    /\ calls = {}
    /\ globals = NotRun
    /\ frames = NotRun

InsightCategories ==
    /\ ~categories.run
    /\ categories' = [run |-> TRUE,
                      out |-> CategoryAnalyzer_analyze(current_user_id, expenses)]
    /\ UNCHANGED <<expenses, current_user_id, base_currency, pc, normalized,
                   renormalized, spending, insights, original_currency, display,
                   groups, validation, checks, groups_insight, advanced, now,
                   calls,
                   globals, frames>>

InsightGroupsOf ==
    /\ ~groups_insight.run
    /\ groups_insight' = [run |-> TRUE,
                          out |-> GroupAnalyzer_analyze(current_user_id, expenses,
                                                        groups)]
    /\ UNCHANGED <<expenses, current_user_id, base_currency, pc, normalized,
                   renormalized, spending, insights, original_currency, display,
                   groups, validation, checks, categories, advanced, now, calls,
                   globals, frames>>

InsightCashFlow ==
    /\ ~advanced.run
    /\ advanced' = [run |-> TRUE,
                    cash_flow |-> analyze_cash_flow(current_user_id, expenses)]
    /\ UNCHANGED <<expenses, current_user_id, base_currency, pc, normalized,
                   renormalized, spending, insights, original_currency, display,
                   groups, validation, checks, categories, groups_insight, now,
                   calls,
                   globals, frames>>

NextInsight == InsightCategories \/ InsightGroupsOf \/ InsightCashFlow

SpecInsight == InitInsight /\ [][NextInsight]_vars

----------------------------------------------------------------------------
(* The variables of the analyses, which the specifications of the web       *)
(* process and of the API client leave alone.                               *)

analysis == <<expenses, current_user_id, base_currency, pc, normalized,
              renormalized, spending, insights, original_currency, display,
              groups, validation, checks, categories, groups_insight, advanced,
              now, calls>>

InitAnalysisIdle ==
    /\ expenses = <<>>
    /\ current_user_id = 1
    /\ base_currency = "USD"
    /\ pc = "input"
    /\ normalized = NotRun
    /\ renormalized = NotRun
    /\ spending = NotRun
    /\ insights = [u \in Users |-> NotRun]
    /\ original_currency = ""
    /\ display = NotRun
    /\ groups = <<>>
    /\ validation = NotRun
    /\ checks = NotRun
    /\ categories = NotRun
    /\ groups_insight = NotRun
    /\ advanced = NotRun
    /\ now = Today
    /\ calls = {}

----------------------------------------------------------------------------
(* Specification SpecPaging: SplitwiseAPIClient.get_expenses against a      *)
(* service that holds a fixed list and answers (offset, limit) with the     *)
(* slice [offset, offset + limit).                                          *)

\* The lists the service may hold, by their length, and the limits a caller
\* may pass: short ones, the largest page, and more than the largest page.
ServedLengths == (0..MaxServed) \cup {100, 200}

PageLimits == (1..MaxLimit) \cup {100, 150}

\* The variant that also ends on a full page.
IsLastPage_FullPageEnds(page, limit) == Len(page) <= limit

\* Line 125: len(expenses) < params["limit"]
IsLastPage(page, limit) == Len(page) < limit

\* What the service answers: the slice [offset, offset + limit) of its list.
Slice(list, offset, limit) ==
    SubSeq(list, offset + 1,
           IF offset + limit < Len(list) THEN offset + limit ELSE Len(list))

\* Lines 101-103: all_expenses = [], offset = 0,
\* params = {"limit": min(limit, 100)}; `requested` keeps the offsets sent.
InitPaging ==
    /\ InitAnalysisIdle
    /\ \E n \in ServedLengths : globals = [served |-> [i \in 1..n |-> i]]
    /\ \E limit \in PageLimits :
         frames = [at |-> "request", limit |-> IF limit < 100 THEN limit ELSE 100,
                   offset |-> 0, all_expenses |-> <<>>, page |-> <<>>,
                   requested |-> <<>>]

\* Lines 112-114: the request of the page at offset, and its answer.
RequestPage ==
    /\ frames.at = "request"
    /\ frames' = [frames EXCEPT
                    !.at = "answered",
                    !.page = Slice(globals.served, frames.offset, frames.limit),
                    !.requested = Append(@, frames.offset)]
    /\ UNCHANGED <<analysis, globals>>

\* Lines 116-127: an empty page ends the loop; any other is appended, and
\* ends the loop when it is shorter than the limit.
TakePage ==
    /\ frames.at = "answered"
    /\ frames' =
         IF frames.page = <<>> THEN [frames EXCEPT !.at = "returned"]
         ELSE [frames EXCEPT
                 !.all_expenses = @ \o frames.page,
                 !.at = IF IsLastPage(frames.page, frames.limit)
                        THEN "returned" ELSE "request",
                 !.offset = IF IsLastPage(frames.page, frames.limit)
                            THEN @ ELSE @ + Len(frames.page)]
    /\ UNCHANGED <<analysis, globals>>

NextPaging == RequestPage \/ TakePage

SpecPaging == InitPaging /\ [][NextPaging]_vars

\* The loop runs in one thread that nothing holds up: a step that can be
\* taken is taken.
SpecPagingFair == SpecPaging /\ WF_frames(NextPaging)

----------------------------------------------------------------------------
(* Specification SpecSessions: the threads of the web process calling       *)
(* create_session, get_session, destroy_session and                         *)
(* cleanup_expired_sessions of the one SessionManager.  _lock is the thread *)
(* that holds the Lock, 0 when it is free; a Lock is not reentrant.  A      *)
(* session carries is_expired, what is_expired() returns: the clock passing *)
(* expires_at makes it true, refresh() makes it false.                      *)

Threads == {1, 2}

SessionUsers == {1, 2}

\* A signed id whose signature is not the expected one.
ForgedSession == <<1, 0>>

\* The calls begun so far.
CallsBegun == globals.begun

\* SessionManager.__init__, lines 61-64; `issued` keeps the sessions created
\* as <<user, session id>>, in the order of their creation.
InitSessions ==
    /\ InitAnalysisIdle
    /\ globals = [_sessions |-> <<>>, _user_sessions |-> <<>>, _lock |-> 0,
                  issued |-> <<>>, begun |-> 0]
    /\ frames = [t \in Threads |->
                    [at |-> "idle", op |-> "", arg |-> <<>>, result |-> <<>>,
                     nested |-> FALSE]]

\* The signed ids a caller may hold: those returned so far, and a forged one.
Presentable ==
    {SignSessionId(globals.issued[k][2]) : k \in 1..Len(globals.issued)}
    \cup {ForgedSession}

\* A thread begins a call.
BeginCall(t) ==
    /\ frames[t].at \in {"idle", "returned"}
    /\ CallsBegun < MaxOps
    /\ \E call \in ({"create_session"} \X {<<u>> : u \in SessionUsers})
                   \cup ({"get_session", "destroy_session"} \X Presentable)
                   \cup {<<"cleanup_expired_sessions", <<>>>>} :
         frames' = [frames EXCEPT
                      ![t] = [at |-> IF call[1] = "create_session" THEN "create_acquire"
                                     ELSE IF call[1] = "get_session" THEN "get_verify"
                                     ELSE IF call[1] = "destroy_session"
                                     THEN "destroy_verify"
                                     ELSE "cleanup_acquire",
                              op |-> call[1], arg |-> call[2], result |-> <<>>,
                              nested |-> FALSE]]
    /\ globals' = [globals EXCEPT !.begun = @ + 1]
    /\ UNCHANGED analysis

\* `with self._lock:` entered by thread t, which waits until the lock is
\* free.
Acquire(t) ==
    /\ globals._lock = 0
    /\ globals' = [globals EXCEPT !._lock = t]

\* The call of thread t returns result.
Returns(t, result) ==
    [frames EXCEPT ![t].at = "returned", ![t].result = result]

\* Line 110
CreateAcquire(t) ==
    /\ frames[t].at = "create_acquire"
    /\ Acquire(t)
    /\ frames' = [frames EXCEPT ![t].at = "create_remove_old"]
    /\ UNCHANGED analysis

\* Lines 112-114
CreateRemoveOld(t) ==
    /\ frames[t].at = "create_remove_old"
    /\ globals' = [globals EXCEPT
                     !._sessions = RemoveOldSession(@, globals._user_sessions,
                                                    frames[t].arg[1])]
    /\ frames' = [frames EXCEPT ![t].at = "create_store"]
    /\ UNCHANGED analysis

\* Lines 116-136: the session stored under an id not used before, the lock
\* released, the signed id returned.
CreateStore(t) ==
    /\ frames[t].at = "create_store"
    /\ LET session_id == Len(globals.issued) + 1
           user == frames[t].arg[1]
       IN  /\ globals' = [globals EXCEPT
                            !._sessions =
                                Put(@, session_id,
                                    [splitwise_user_id |-> user,
                                     is_expired |-> FALSE]),
                            !._user_sessions = Put(@, user, session_id),
                            !.issued = Append(@, <<user, session_id>>),
                            !._lock = 0]
           /\ frames' = Returns(t, SignSessionId(session_id))
    /\ UNCHANGED analysis

\* Lines 140-142
GetVerify(t) ==
    /\ frames[t].at = "get_verify"
    /\ frames' = IF VerifySessionId(frames[t].arg) = None
                 THEN Returns(t, <<"None">>)
                 ELSE [frames EXCEPT ![t].at = "get_acquire"]
    /\ UNCHANGED <<analysis, globals>>

\* Line 144
GetAcquire(t) ==
    /\ frames[t].at = "get_acquire"
    /\ Acquire(t)
    /\ frames' = [frames EXCEPT ![t].at = "get_lookup"]
    /\ UNCHANGED analysis

\* Lines 145-155: an unknown session returns None; an expired one calls
\* destroy_session with the lock held; any other is refreshed and returned.
GetLookup(t) ==
    /\ frames[t].at = "get_lookup"
    /\ LET session_id == VerifySessionId(frames[t].arg)[1] IN
       IF session_id \notin DOMAIN globals._sessions
       THEN /\ globals' = [globals EXCEPT !._lock = 0]
            /\ frames' = Returns(t, <<"None">>)
       ELSE IF globals._sessions[session_id].is_expired
       THEN /\ frames' = [frames EXCEPT ![t].at = "destroy_verify",
                                        ![t].nested = TRUE]
            /\ UNCHANGED globals
       ELSE /\ globals' = [globals EXCEPT
                             !._sessions[session_id].is_expired = FALSE,
                             !._lock = 0]
            /\ frames' = Returns(t, <<"session", session_id>>)
    /\ UNCHANGED analysis

\* Lines 159-161
DestroyVerify(t) ==
    /\ frames[t].at = "destroy_verify"
    /\ frames' = IF VerifySessionId(frames[t].arg) = None
                 THEN Returns(t, <<"False">>)
                 ELSE [frames EXCEPT ![t].at = "destroy_acquire"]
    /\ UNCHANGED <<analysis, globals>>

\* Line 163
DestroyAcquire(t) ==
    /\ frames[t].at = "destroy_acquire"
    /\ Acquire(t)
    /\ frames' = [frames EXCEPT ![t].at = "destroy_pop"]
    /\ UNCHANGED analysis

\* What destroy_session's caller does with its result: get_session, had it
\* called, returns None and leaves its own `with` block.
AfterDestroy(t, result) ==
    IF frames[t].nested THEN Returns(t, <<"None">>) ELSE Returns(t, result)

\* Lines 164, 168: the session popped; without one the lock is released and
\* False returned.
DestroyPop(t) ==
    /\ frames[t].at = "destroy_pop"
    /\ LET session_id == VerifySessionId(frames[t].arg)[1] IN
       IF session_id \in DOMAIN globals._sessions
       THEN /\ globals' = [globals EXCEPT !._sessions = Pop(@, session_id)]
            /\ frames' = [frames EXCEPT
                            ![t].at = "destroy_pop_user",
                            ![t].result =
                                <<globals._sessions[session_id].splitwise_user_id>>]
       ELSE /\ globals' = [globals EXCEPT !._lock = 0]
            /\ frames' = AfterDestroy(t, <<"False">>)
    /\ UNCHANGED analysis

\* Lines 165-167: the user's entry popped, the lock released, True returned.
DestroyPopUser(t) ==
    /\ frames[t].at = "destroy_pop_user"
    /\ globals' = [globals EXCEPT
                     !._user_sessions = Pop(@, frames[t].result[1]),
                     !._lock = 0]
    /\ frames' = AfterDestroy(t, <<"True">>)
    /\ UNCHANGED analysis

\* Line 196
CleanupAcquire(t) ==
    /\ frames[t].at = "cleanup_acquire"
    /\ Acquire(t)
    /\ frames' = [frames EXCEPT ![t].at = "cleanup_remove"]
    /\ UNCHANGED analysis

\* Lines 197-204
CleanupRemove(t) ==
    /\ frames[t].at = "cleanup_remove"
    /\ LET kept == WithoutExpired(globals._sessions, globals._user_sessions) IN
       globals' = [globals EXCEPT !._sessions = kept._sessions,
                                  !._user_sessions = kept._user_sessions,
                                  !._lock = 0]
    /\ frames' = Returns(t, <<"None">>)
    /\ UNCHANGED analysis

\* The clock passes expires_at of a stored session.
SessionExpires ==
    /\ \E session_id \in DOMAIN globals._sessions :
         /\ ~globals._sessions[session_id].is_expired
         /\ globals' = [globals EXCEPT !._sessions[session_id].is_expired = TRUE]
    /\ UNCHANGED <<analysis, frames>>

\* A step of thread t within a call.
ThreadStep(t) ==
    \/ CreateAcquire(t) \/ CreateRemoveOld(t) \/ CreateStore(t)
    \/ GetVerify(t) \/ GetAcquire(t) \/ GetLookup(t)
    \/ DestroyVerify(t) \/ DestroyAcquire(t) \/ DestroyPop(t)
    \/ DestroyPopUser(t)
    \/ CleanupAcquire(t) \/ CleanupRemove(t)

NextSessions ==
    \/ \E t \in Threads : BeginCall(t)
    \/ \E t \in Threads : ThreadStep(t)
    \/ SessionExpires

SpecSessions == InitSessions /\ [][NextSessions]_vars

\* Every thread that can take a step of its call takes one in the end: the
\* interpreter runs every thread that is not waiting.
SpecSessionsFair ==
    SpecSessions /\ \A t \in Threads : WF_<<globals, frames>>(ThreadStep(t))

----------------------------------------------------------------------------
(* Specification SpecWeb: the requests /auth/login, /auth/callback,         *)
(* /api/ingest, /api/ingest/file and /api/insights served by one event      *)
(* loop.  A handler runs without interruption up to an await that gives the *)
(* loop to another request; only the token exchange of /auth/callback is    *)
(* one (the await of the file's content in /api/ingest/file comes before    *)
(* anything is read or written).  globals holds the module-level objects of *)
(* main.py and auth/oauth.py, frames the callbacks awaiting their token     *)
(* exchange, the number of requests begun and the last response.            *)

\* What the service holds for an access token: a user with an expense
\* without repayment edges, one with an expense that carries an edge, and one
\* without expenses.
Account(a) ==
    IF a = 1
    THEN [current_user |-> 1, expenses |-> <<Split2(6000, 3000, 3000)>>,
          groups |-> <<MkGroup(1, "Test Group", <<>>)>>]
    ELSE IF a = 2
    THEN [current_user |-> 2,
          expenses |-> <<MkExpense("USD", Dec(4000, 2),
                                   <<UserData2(2, Share(4000), Share(2000)),
                                     UserData2(1, Share(0), Share(2000))>>,
                                   <<Edge(1, 2, Dec(2000, 2), "USD")>>)>>,
          groups |-> <<>>]
    ELSE [current_user |-> 3, expenses |-> <<>>, groups |-> <<>>]

Accounts == {1, 2, 3}

\* The api_token of an /api/ingest request: none, one the service turns
\* down, or the token of an account.
ApiTokens == {None, <<0>>} \cup {<<a>> : a \in Accounts}

\* An uploaded file: one the parser turns down, the export of an account, or
\* an export one of whose expenses cannot be parsed.
Files ==
    {[parses |-> FALSE, account |-> 1, well_formed |-> FALSE]}
    \cup {[parses |-> TRUE, account |-> a, well_formed |-> TRUE] : a \in Accounts}
    \cup {[parses |-> TRUE, account |-> 2, well_formed |-> FALSE]}

\* Base currencies of a request: one of the rate table and one outside it.
RequestBases == {"USD", "XYZ"}

\* main.py:63-68 and oauth.py:103; None is NotRun for current_data and 0 for
\* the user id and the token.  `exchanges` keeps the state of every callback
\* that went on to the token exchange, `succeeded` whether a request that
\* ingests has succeeded.  process_data depends on its arguments alone:
\* `display` holds, for the data of each account and each base currency of a
\* request, what the call returns or raises, and the handlers read it there.
InitWeb ==
    /\ expenses = <<>>
    /\ current_user_id = 1
    /\ base_currency = "USD"
    /\ pc = "input"
    /\ normalized = NotRun
    /\ renormalized = NotRun
    /\ spending = NotRun
    /\ insights = [u \in Users |-> NotRun]
    /\ original_currency = ""
    /\ display = [a \in Accounts |-> [base \in RequestBases |->
                    process_data(Account(a).expenses, Account(a).groups,
                                 Account(a).current_user, base)]]
    /\ groups = <<>>
    /\ validation = NotRun
    /\ checks = NotRun
    /\ categories = NotRun
    /\ groups_insight = NotRun
    /\ advanced = NotRun
    /\ now = Today
    /\ calls = {}
    /\ globals = [_oauth_states |-> {}, generated |-> 0,
                  current_data |-> NotRun, current_expenses |-> <<>>,
                  current_groups |-> <<>>, current_user_id |-> 0,
                  current_access_token |-> 0,
                  exchanges |-> <<>>, succeeded |-> FALSE]
    /\ frames = [pending |-> <<>>, begun |-> 0,
                 response |-> [handler |-> "", status |-> 0]]

\* The response of a handler.
Responds(handler, status) ==
    [frames EXCEPT !.begun = @ + 1,
                   !.response = [handler |-> handler, status |-> status]]

\* /auth/login, main.py:312-331, with generate_oauth_state: a state never
\* used before is stored and returned.
Login ==
    /\ frames.begun < MaxRequests
    /\ globals' = [globals EXCEPT
                     !._oauth_states = @ \cup {globals.generated + 1},
                     !.generated = @ + 1]
    /\ frames' = Responds("login", 200)
    /\ UNCHANGED analysis

\* /auth/callback up to the await of the token exchange, main.py:333-394:
\* an error or a missing code is answered with 400, as is a state that
\* validate_oauth_state does not know.  The state is None, one never
\* generated (0), or one generated.
CallbackBegin ==
    /\ frames.begun < MaxRequests
    /\ \E error, code \in BOOLEAN :
         \E state \in {None} \cup {<<s>> : s \in 0..globals.generated} :
           IF error \/ ~code \/ StateRejected(globals._oauth_states, state)
           THEN /\ frames' = Responds("oauth_callback", 400)
                /\ UNCHANGED globals
           ELSE /\ frames' = [frames EXCEPT !.begun = @ + 1,
                                            !.pending = Append(@, state)]
                /\ globals' = [globals EXCEPT !.exchanges = Append(@, state)]
    /\ UNCHANGED analysis

\* frames.pending without its k-th callback.
Resumed(k) ==
    [frames EXCEPT
       !.pending = SubSeq(@, 1, k - 1) \o SubSeq(@, k + 1, Len(@))]

\* The data of an account stored and processed by a handler: the state it
\* leaves, with a note of the success, and whether process_data raised.
Processed(state, a, base) ==
    LET done == StoreThenProcess(state, Account(a).expenses, Account(a).groups,
                                 Account(a).current_user, display[a][base])
    IN  [done EXCEPT !.state.succeeded = @ \/ ~done.raised]

\* The rest of /auth/callback, main.py:394-526, once the token exchange has
\* answered: a failed exchange or an answer without a token is answered with
\* 400; otherwise the token is stored, the state cleared, and the data of the
\* account fetched, stored and processed.  A failure of the fetch or of
\* process_data is answered with the page of status 500.
CallbackResume ==
    \E k \in 1..Len(frames.pending) :
      \E token \in {0} \cup Accounts : \E fetched \in BOOLEAN :
        LET state == frames.pending[k]
            cleared == [globals EXCEPT
                          !.current_access_token = token,
                          !._oauth_states =
                              IF state = None THEN @ ELSE @ \ {state[1]}]
            done == Processed(cleared, token, "USD")
            status == IF token = 0 THEN 400
                      ELSE IF ~fetched \/ done.raised THEN 500
                      ELSE 302
        IN  /\ globals' = IF token = 0 THEN globals
                          ELSE IF ~fetched THEN cleared
                          ELSE done.state
            /\ frames' = [Resumed(k) EXCEPT
                            !.response = [handler |-> "oauth_callback",
                                          status |-> status]]
            /\ UNCHANGED analysis

\* /api/ingest, main.py:530-627.  Without a token, and with a token the
\* service turns down, nothing is ingested (400).  Otherwise current_user_id
\* is set from the data fetched (line 556), and the data, when it holds an
\* expense, stored and processed; an exception of process_data is not caught
\* (500); data without an expense is answered with 400.
IngestData ==
    /\ frames.begun < MaxRequests
    /\ \E api_token \in ApiTokens : \E base \in RequestBases :
         IF api_token = None \/ api_token = <<0>>
         THEN /\ frames' = Responds("ingest_data", 400)
              /\ UNCHANGED globals
         ELSE LET data == Account(api_token[1])
                  fetched == [globals EXCEPT
                                !.current_user_id = data.current_user]
                  done == Processed(fetched, api_token[1], base)
              IN  IF data.expenses = <<>>
                  THEN /\ globals' = fetched
                       /\ frames' = Responds("ingest_data", 400)
                  ELSE /\ globals' = done.state
                       /\ frames' = Responds("ingest_data",
                                             IF done.raised THEN 500 ELSE 200)
    /\ UNCHANGED analysis

\* /api/ingest/file, main.py:630-706.  A file the parser turns down is
\* answered with 400.  Otherwise current_user_id is set from the file (line
\* 655), its groups and expenses are parsed, stored and processed; every
\* exception, of parse_expense or of process_data, is answered with 400.
IngestFile ==
    /\ frames.begun < MaxRequests
    /\ \E file \in Files : \E base \in RequestBases :
         IF ~file.parses
         THEN /\ frames' = Responds("ingest_file", 400)
              /\ UNCHANGED globals
         ELSE LET data == Account(file.account)
                  read == [globals EXCEPT
                             !.current_user_id = data.current_user]
                  done == Processed(read, file.account, base)
              IN  IF ~file.well_formed
                  THEN /\ globals' = read
                       /\ frames' = Responds("ingest_file", 400)
                  ELSE /\ globals' = done.state
                       /\ frames' = Responds("ingest_file",
                                             IF done.raised THEN 400 ELSE 200)
    /\ UNCHANGED analysis

\* /api/insights, main.py:709-715
GetInsights ==
    /\ frames.begun < MaxRequests
    /\ frames' = Responds("get_insights",
                          IF globals.current_data = NotRun THEN 404 ELSE 200)
    /\ UNCHANGED <<analysis, globals>>

NextWeb ==
    \/ Login
    \/ CallbackBegin
    \/ CallbackResume
    \/ IngestData
    \/ IngestFile
    \/ GetInsights

SpecWeb == InitWeb /\ [][NextWeb]_vars

----------------------------------------------------------------------------
(* Claims about BalanceAnalyzer, checked under SpecBalance *)

\* The sum of the values of a function with a finite domain.
RECURSIVE SumFn(_)
SumFn(f) ==
    IF DOMAIN f = {} THEN 0
    ELSE LET x == CHOOSE y \in DOMAIN f : TRUE
         IN  f[x] + SumFn([y \in DOMAIN f \ {x} |-> f[y]])

\* The repayment edges of the expenses that are not deleted, as
\* <<expense index, edge index>>.
LiveEdges ==
    {ij \in (1..Len(expenses)) \X (1..3) :
        /\ ~expenses[ij[1]].deleted_at
        /\ ij[2] <= Len(expenses[ij[1]].repayments)}

EdgeAt(ij) == expenses[ij[1]].repayments[ij[2]]

IsSettlementEdge(ij) == expenses[ij[1]].payment

\* The live edges that run between u and c, of settlements or of expenses.
EdgesBetween(u, c, settlement) ==
    {ij \in LiveEdges :
        /\ IsSettlementEdge(ij) = settlement
        /\ {EdgeAt(ij).from_user, EdgeAt(ij).to_user} = {u, c}}

\* Between u and c there is exactly one expense edge and one settlement edge,
\* with the same direction and the same positive amount.
DebtThenPayment(u, c) ==
    \E g \in EdgesBetween(u, c, FALSE), p \in EdgesBetween(u, c, TRUE) :
        /\ EdgesBetween(u, c, FALSE) = {g}
        /\ EdgesBetween(u, c, TRUE) = {p}
        /\ EdgeAt(g).from_user = EdgeAt(p).from_user
        /\ EdgeAt(g).to_user = EdgeAt(p).to_user
        /\ Cents(EdgeAt(g).amount) = Cents(EdgeAt(p).amount)
        /\ Cents(EdgeAt(g).amount) > 0

\* The balance the ledger of u holds for c, in cents.
LedgerBalance(u, c) ==
    LET d == BalanceLedger(u, expenses).by_person_id IN
    IF c \in DictKeys(d) THEN Cents(DictGet(d, c)) ELSE 0

\* Everyone but u who stands on a live edge.
Counterparties(u) ==
    ({EdgeAt(ij).from_user : ij \in LiveEdges} \cup
     {EdgeAt(ij).to_user : ij \in LiveEdges}) \ {u}

\* C1: for every expense list, owed_to_user - user_owes is net_balance, within
\* a cent.
C1_BalanceDecomposition ==
    \A u \in Users :
        insights[u].run
        => Abs(Cents(insights[u].out.owed_to_user)
               - Cents(insights[u].out.user_owes)
               - Cents(insights[u].out.net_balance)) < 1

\* C2: when between the user and a counterparty there is one expense edge and
\* one settlement edge of the same direction and amount, the counterparty's
\* balance is 0 (the settlement cancels the debt instead of doubling it),
\* whichever of the two is the debtor; and when that is so for every
\* counterparty the user has an edge with, net_balance is 0.
C2_SettlementCancelsDebt ==
    \A u \in Users :
        insights[u].run
        => /\ \A c \in Counterparties(u) :
                DebtThenPayment(u, c) => LedgerBalance(u, c) = 0
           /\ (\A c \in Counterparties(u) :
                    DebtThenPayment(u, c)
                    \/ EdgesBetween(u, c, FALSE) \cup EdgesBetween(u, c, TRUE) = {})
              => Cents(insights[u].out.net_balance) = 0

\* A debtor and a creditor of a cancelled debt, both analysed.
C2_Witness ==
    \E u \in Users : \E c \in Users \ {u} :
        /\ insights[u].run /\ insights[c].run
        /\ DebtThenPayment(u, c)
        /\ \E g \in EdgesBetween(u, c, FALSE) : EdgeAt(g).from_user = u
        /\ Cents(insights[u].out.net_balance) = 0
        /\ Cents(insights[c].out.net_balance) = 0

\* The user's paid share minus owed share over the entries of one expense.
ShareDelta(u, e) ==
    LET mine == {i \in 1..Len(e.users) : e.users[i].user.id = u}
    IN  SumFn([i \in mine |->
                 (IF "paid_share" \in DOMAIN e.users[i]
                  THEN Cents(ParseDecimal(e.users[i].paid_share)) ELSE 0)
                 - (IF "owed_share" \in DOMAIN e.users[i]
                    THEN Cents(ParseDecimal(e.users[i].owed_share)) ELSE 0)])

OnlyLiveSplits == \A i \in 1..Len(expenses) :
                      ~expenses[i].deleted_at /\ ~expenses[i].payment

\* C3: with only expenses that are neither deleted nor settlements,
\* net_balance is the sum of the user's paid share minus owed share; for the
\* two expenses of the test fixture (50/25 and 100/50) it is 75.00, with
\* owed_to_user 75.00 and user_owes 0.00.
C3_NetBalanceIsPaidMinusOwed ==
    \A u \in Users :
        (insights[u].run /\ OnlyLiveSplits)
        => /\ Cents(insights[u].out.net_balance)
                = SumFn([i \in 1..Len(expenses) |-> ShareDelta(u, expenses[i])])
           /\ (/\ u = 1
               /\ Len(expenses) = 2
               /\ \A i \in 1..2 : expenses[i].repayments = <<>>
               /\ Cents(expenses[1].cost) = 5000
               /\ Cents(expenses[2].cost) = 10000)
              => /\ Cents(insights[u].out.net_balance) = 7500
                 /\ Cents(insights[u].out.owed_to_user) = 7500
                 /\ Cents(insights[u].out.user_owes) = 0

\* Every live edge runs between two distinct members of Users.
EdgesWithinUsers ==
    \A ij \in LiveEdges :
        /\ EdgeAt(ij).from_user \in Users
        /\ EdgeAt(ij).to_user \in Users
        /\ EdgeAt(ij).from_user # EdgeAt(ij).to_user

----------------------------------------------------------------------------
(* Claims about the normalizer, checked under SpecNormalize *)

SourceExpense == expenses[1]

KnownCurrency(code) == Upper(code) \in DOMAIN EXCHANGE_RATES

\* The amounts an expense carries: cost, edge amounts, share strings.
Amounts(e) ==
    [cost |-> e.cost,
     edges |-> [i \in 1..Len(e.repayments) |-> e.repayments[i].amount],
     shares |-> [i \in 1..Len(e.users) |->
                   [k \in DOMAIN e.users[i] \ {"user"} |-> e.users[i][k]]]]

\* amount * (targetRate / sourceRate) rounded half-up to 2 decimals, in cents.
ConvertedCents(amount, source, target) ==
    IF Upper(source) = target THEN Cents(amount)
    ELSE LET n == Abs(Cents(amount)) * EXCHANGE_RATES[target]
             d == EXCHANGE_RATES[Upper(source)]
             r == IF (2 * n) % (2 * d) >= d THEN n \div d + 1 ELSE n \div d
         IN  IF Cents(amount) < 0 THEN -r ELSE r

\* C7: an expense whose currency is not in the rate table (here: one without
\* repayment edges) is returned without error, with the amounts it came with
\* and with its own currency code.
C7_UnknownCurrencyPassesThrough ==
    (/\ pc # "input"
     /\ ~KnownCurrency(SourceExpense.currency_code)
     /\ SourceExpense.repayments = <<>>)
    => /\ ~normalized.out.raised
       /\ Amounts(normalized.out.expense) = Amounts(SourceExpense)
       /\ normalized.out.expense.currency_code = SourceExpense.currency_code

\* C9: every expense of a known currency, with or without repayment edges, is
\* returned without error; its cost and every edge amount are the source
\* amounts converted from the expense's currency to the target and rounded
\* half-up to cents; the edges keep their number, order and endpoints.
C9_NormalizeConvertsCostAndEdges ==
    (pc # "input" /\ KnownCurrency(SourceExpense.currency_code))
    => /\ ~normalized.out.raised
       /\ LET e == SourceExpense
              n == normalized.out.expense
          IN  /\ Cents(n.cost)
                   = ConvertedCents(e.cost, e.currency_code, base_currency)
              /\ Len(n.repayments) = Len(e.repayments)
              /\ \A i \in 1..Len(e.repayments) :
                   /\ n.repayments[i].from_user = e.repayments[i].from_user
                   /\ n.repayments[i].to_user = e.repayments[i].to_user
                   /\ Cents(n.repayments[i].amount)
                        = ConvertedCents(e.repayments[i].amount,
                                         e.currency_code, base_currency)

\* C10: an expense already in the target currency comes back with identical
\* amounts (cost, edge amounts, shares), and normalizing the result of a
\* normalization returns the same amounts again.
C10_NormalizationIdempotent ==
    /\ (pc # "input" /\ Upper(SourceExpense.currency_code) = base_currency)
       => /\ ~normalized.out.raised
          /\ Amounts(normalized.out.expense) = Amounts(SourceExpense)
    /\ pc # "input" => ~normalized.out.raised
    /\ pc = "renormalized"
       => /\ ~renormalized.out.raised
          /\ Amounts(renormalized.out.expense) = Amounts(normalized.out.expense)

----------------------------------------------------------------------------
(* Claims about SpendingAnalyzer, checked under SpecSpending *)

\* C5: the amounts of monthly_breakdown add up to total_spending, within a
\* cent.
C5_MonthlySumsToTotal ==
    spending.run
    => Abs(SumEntries(spending.out.monthly_breakdown, 1,
                      Len(spending.out.monthly_breakdown))
           - Cents(spending.out.total_spending)) < 1

\* Spending in two months.
C5_Witness ==
    /\ spending.run
    /\ Len(spending.out.monthly_breakdown) >= 2
    /\ \A i \in 1..Len(spending.out.monthly_breakdown) :
           Cents(spending.out.monthly_breakdown[i][2]) > 0

\* The paid shares of user u in expense e, in cents.
PaidBy(u, e) ==
    SumFn([i \in {j \in 1..Len(e.users) : e.users[j].user.id = u} |->
             IF "paid_share" \in DOMAIN e.users[i]
             THEN Cents(ParseDecimal(e.users[i].paid_share)) ELSE 0])

OwedBy(u, e) ==
    SumFn([i \in {j \in 1..Len(e.users) : e.users[j].user.id = u} |->
             IF "owed_share" \in DOMAIN e.users[i]
             THEN Cents(ParseDecimal(e.users[i].owed_share)) ELSE 0])

\* C6: total_spending is the sum of the current user's paid shares over the
\* expenses that are neither deleted nor settlements, and of nothing else.
C6_TotalIsPaidShares ==
    spending.run
    => Cents(spending.out.total_spending)
         = SumFn([i \in {j \in 1..Len(expenses) :
                            ~expenses[j].deleted_at /\ ~expenses[j].payment} |->
                    PaidBy(current_user_id, expenses[i])])

\* A list with a settlement or a deleted expense the user paid for, next to a
\* split the user paid for, owes a share of, and another participant is in.
C6_Witness ==
    /\ spending.run
    /\ \E i \in 1..Len(expenses) :
           /\ expenses[i].deleted_at \/ expenses[i].payment
           /\ PaidBy(current_user_id, expenses[i]) > 0
    /\ \E i \in 1..Len(expenses) :
           /\ ~expenses[i].deleted_at /\ ~expenses[i].payment
           /\ PaidBy(current_user_id, expenses[i]) > 0
           /\ OwedBy(current_user_id, expenses[i]) > 0
           /\ Len(expenses[i].users) > 1
           /\ Cents(spending.out.total_spending)
                = PaidBy(current_user_id, expenses[i])

----------------------------------------------------------------------------
(* Claims about process_data, checked under SpecProcess *)

LiveIndexes == {i \in 1..Len(expenses) : ~expenses[i].deleted_at}

\* Every expense that is not deleted is in the one supported currency x,
\* which is not the base currency.
AllIn(x) ==
    /\ LiveIndexes # {}
    /\ \A i \in LiveIndexes : expenses[i].currency_code = x
    /\ x \in DOMAIN EXCHANGE_RATES
    /\ x # base_currency

\* The paid shares the user's spending is made of, before normalization.
SpentIndexes == {i \in LiveIndexes : ~expenses[i].payment}

OriginalSpending ==
    SumFn([i \in SpentIndexes |-> PaidBy(current_user_id, expenses[i])])

SpentEntries ==
    SumFn([i \in SpentIndexes |->
             Cardinality({j \in 1..Len(expenses[i].users) :
                             expenses[i].users[j].user.id = current_user_id})])

\* C8: when every expense that is not deleted is in one supported currency x
\* other than the base, the returned spending is labelled x and its total is
\* the sum of the user's original paid shares, up to the rounding of the
\* conversions (half a base cent for each share, taken back to x, and a cent).
C8_DisplayFidelity ==
    \A x \in DOMAIN EXCHANGE_RATES :
        (pc = "returned" /\ AllIn(x))
        => /\ display.spending.currency_code = x
           /\ LET shown == display.spending.total_spending
                  back == ConversionRate(x, base_currency)
              IN  2 * back.den
                    * Abs(shown.num - OriginalSpending * shown.den)
                  <= shown.den * (SpentEntries * back.num + 2 * back.den)

----------------------------------------------------------------------------
(* Claims about DataVerifier, checked under SpecVerify *)

\* The sum of one share over all the participants of an expense, in cents.
TotalCents(e, key) ==
    SumFn([j \in 1..Len(e.users) |-> Cents(ShareOf(e.users[j], key))])

\* By how many cents the paid and the owed totals of an expense differ.
Mismatch(e) == Abs(TotalCents(e, "paid_share") - TotalCents(e, "owed_share"))

\* The positions of the expenses that are not deleted, in list order.
LiveList ==
    SelectSeq([i \in 1..Len(expenses) |-> i],
              LAMBDA i : ~expenses[i].deleted_at)

\* The non-deleted non-settlement expenses of group g.
GroupSplits(g) ==
    {i \in 1..Len(expenses) :
        /\ ~expenses[i].deleted_at /\ ~expenses[i].payment
        /\ expenses[i].group_id = g}

\* The participants of an expense that carry a user id.
Identifiable(e) == {j \in 1..Len(e.users) : UserIdOf(e.users[j]) # 0}

\* The sum over the participants P(e) of the expenses of group g of paid
\* minus owed, in cents.
GroupTotalOver(g, P(_)) ==
    SumFn([i \in GroupSplits(g) |->
             SumFn([j \in P(expenses[i]) |->
                      Cents(ShareOf(expenses[i].users[j], "paid_share"))
                      - Cents(ShareOf(expenses[i].users[j], "owed_share"))])])

AllParticipants(e) == 1..Len(e.users)

GroupTotalCents(g) == GroupTotalOver(g, Identifiable)

GroupsWithSplits ==
    {g \in {expenses[i].group_id : i \in 1..Len(expenses)} : GroupSplits(g) # {}}

GroupsWithParticipants ==
    {g \in GroupsWithSplits :
        \E i \in GroupSplits(g) : Identifiable(expenses[i]) # {}}

\* By how many cents the edges of a settlement differ from its cost.
SettlementGap(e) ==
    Abs(Cents(e.cost)
        - SumFn([j \in 1..Len(e.repayments) |-> Cents(e.repayments[j].amount)]))

\* The input holds an inconsistency the verifier reports as an error.
ErrorInconsistency ==
    \/ \E i \in LiveIndexes : Mismatch(expenses[i]) > 1
    \/ \E g \in GroupsWithParticipants : Abs(GroupTotalCents(g)) > 1
    \/ \E i \in LiveIndexes :
          expenses[i].payment /\ SettlementGap(expenses[i]) > 1

\* C11: verify_all returns a result for every input, inconsistent or not;
\* is_valid holds exactly when errors is empty, which is exactly when the
\* input has no paid/owed mismatch, no unbalanced group and no settlement
\* whose edges miss its cost; mixed currencies only add warnings.
C11_VerifyAllCollectsErrors ==
    validation.run
    => /\ validation.out.is_valid <=> (validation.out.errors = <<>>)
       /\ validation.out.is_valid <=> ~ErrorInconsistency

C11_Witness ==
    /\ validation.run
    /\ validation.out.warnings # <<>>
    /\ validation.out.is_valid
    /\ \E i \in LiveIndexes : Mismatch(expenses[i]) = 1

\* C12: verify_expense_totals returns one check for each expense that is
\* not deleted, in list order, valid exactly when the paid and owed totals
\* differ by at most one cent, and one error naming the expense for each of
\* those that differ by more.
C12_ExpenseTotalsChecks ==
    checks["expense_totals"].run
    => LET out == checks["expense_totals"].out
           wrong == SelectSeq(LiveList, LAMBDA i : Mismatch(expenses[i]) > 1)
       IN  /\ Len(out.checks) = Len(LiveList)
           /\ \A k \in 1..Len(LiveList) :
                /\ out.checks[k].expense_id = expenses[LiveList[k]].id
                /\ out.checks[k].is_valid
                     <=> (Mismatch(expenses[LiveList[k]]) <= 1)
           /\ Len(out.errors) = Len(wrong)
           /\ \A k \in 1..Len(wrong) :
                out.errors[k].expense_id = expenses[wrong[k]].id

C12_Witness ==
    /\ checks["expense_totals"].run
    /\ Len(checks["expense_totals"].out.checks) = 1
    /\ \E i \in LiveIndexes : Mismatch(expenses[i]) = 1
    /\ \E i \in 1..Len(expenses) : expenses[i].deleted_at

\* What verify_group_balances must report of the groups S, whose totals are
\* taken over the participants P: one check each, with the group's total,
\* valid exactly when the total is within one cent, and one error for each
\* group whose total is not.
GroupChecksCover(S, P(_)) ==
    LET out == checks["group_balances"].out IN
    /\ \A g \in S :
         \E k \in 1..Len(out.checks) :
            /\ out.checks[k].group_id = (IF g = 0 THEN None ELSE Some(g))
            /\ Cents(out.checks[k].total_balance) = GroupTotalOver(g, P)
            /\ out.checks[k].is_valid <=> (Abs(GroupTotalOver(g, P)) <= 1)
            /\ \A j \in 1..Len(out.checks) :
                 out.checks[j].group_id = out.checks[k].group_id => j = k
    /\ Len(out.errors)
         = Cardinality({g \in S : Abs(GroupTotalOver(g, P)) > 1})

\* C13 as stated: every group with a non-deleted non-settlement expense has
\* one check, whose total is taken over all the participants.
C13_EveryGroupChecked ==
    checks["group_balances"].run
    => GroupChecksCover(GroupsWithSplits, AllParticipants)

\* C13 as amended: verify_group_balances produces one check for every group
\* that has a non-deleted non-settlement expense with a participant that
\* carries a user id, and for no other group; the check's total is the sum
\* of paid minus owed over those participants, the check is valid exactly
\* when the total is within one cent, and an error is reported exactly for
\* the groups whose total is not.
C13_GroupsWithParticipantsChecked ==
    checks["group_balances"].run
    => /\ GroupChecksCover(GroupsWithParticipants, Identifiable)
       /\ Len(checks["group_balances"].out.checks)
            = Cardinality(GroupsWithParticipants)

C13_Witness ==
    /\ checks["group_balances"].run
    /\ Len(checks["group_balances"].out.checks) = 2
    /\ Len(checks["group_balances"].out.errors) = 1

----------------------------------------------------------------------------
(* Claims about the clock, checked under SpecClock *)

\* C14: an analytics function is a function of its arguments alone: two
\* calls of the same function on the same expenses and groups return equal
\* results, whenever each is made.
C14_AnalyticsArePure ==
    \A c1 \in calls : \A c2 \in calls :
        c1.op = c2.op => c1.out = c2.out

----------------------------------------------------------------------------
(* Claims about the per-person map, checked under SpecBalance *)

\* What the edge ij adds to the balance of u with the other end of the edge:
\* an expense edge towards u is owed to u, a settlement edge towards u has
\* been paid back to u.
EdgeDelta(u, ij) ==
    LET e == EdgeAt(ij)
        towards == IF e.to_user = u THEN Cents(e.amount) ELSE -Cents(e.amount)
    IN  IF IsSettlementEdge(ij) THEN -towards ELSE towards

\* The net balance of u with the counterparty c over the live edges, in cents.
NetWith(u, c) ==
    SumFn([ij \in EdgesBetween(u, c, FALSE) \cup EdgesBetween(u, c, TRUE) |->
             EdgeDelta(u, ij)])

\* C16: by_person has one entry for each counterparty whose net balance with
\* the user is not zero and none for the others, none of its entries is
\* zero, and its entries sum to net_balance.
C16_ByPersonPerCounterparty ==
    \A u \in Users :
        insights[u].run
        => LET by_person == insights[u].out.by_person
               owing == {c \in Counterparties(u) : NetWith(u, c) # 0}
           IN  /\ Len(by_person) = Cardinality(owing)
               /\ \A k \in 1..Len(by_person) : Cents(by_person[k][2]) # 0
               /\ SumFn([k \in 1..Len(by_person) |-> Cents(by_person[k][2])])
                    = Cents(insights[u].out.net_balance)

----------------------------------------------------------------------------
(* Claims about the spending trend, checked under SpecTrend *)

\* What the user pays in the month of the k-th expense, in cents.
PaidInMonth(k) == PaidBy(current_user_id, expenses[k])

\* C17: with n >= 4 months, the first floor(n/2) of them against the rest,
\* the trend is increasing when the later average is at least 1.10 times the
\* earlier one, decreasing when it is at most 0.90 times, stable otherwise;
\* with fewer than 4 months it is stable.
C17_TrendThresholdsInclusive ==
    spending.run
    => LET n == Len(expenses)
           mid == n \div 2
           first_half == SumFn([k \in 1..mid |-> PaidInMonth(k)])
           second_half == SumFn([k \in (mid + 1)..n |-> PaidInMonth(k)])
           \* second_half / (n - mid) against first_half / mid * 11 / 10
           later == second_half * mid * 10
           earlier == first_half * (n - mid)
       IN  spending.out.spending_trend
             = IF n < 4 THEN "stable"
               ELSE IF later >= earlier * 11 THEN "increasing"
               ELSE IF later <= earlier * 9 THEN "decreasing"
               ELSE "stable"

----------------------------------------------------------------------------
(* Claims about AdvancedAnalyzer, checked under SpecAdvanced *)

CallsOf(op) == {c \in calls : c.op = op}

\* The multiplier a is at most the multiplier b (each <<num, den>>).
MultiplierLeq(a, b) == a[1] * b[2] <= b[1] * a[2]

Reported(out) == {out.anomalies[k] : k \in 1..Len(out.anomalies)}

\* C18: of two detect_anomalies results on the same expenses, the one with
\* the larger multiplier has no more anomalies, and each of its anomalies is
\* among those of the other.
C18_AnomaliesMonotoneInMultiplier ==
    \A c1, c2 \in CallsOf("detect_anomalies") :
        MultiplierLeq(c1.at, c2.at)
        => /\ Len(c2.out.anomalies) <= Len(c1.out.anomalies)
           /\ Reported(c2.out) \subseteq Reported(c1.out)

\* Two multipliers of which the larger still reports an anomaly and the
\* smaller reports more.
C18_Witness ==
    \E c1, c2 \in CallsOf("detect_anomalies") :
        /\ MultiplierLeq(c1.at, c2.at)
        /\ Len(c2.out.anomalies) > 0
        /\ Len(c1.out.anomalies) > Len(c2.out.anomalies)

\* The (expense, participant) places where the current user has a positive
\* paid share in an expense that is neither deleted nor a settlement.
PositivePaidPlaces ==
    {ij \in {kj \in (1..Len(expenses)) \X (1..2) : kj[2] <= Len(expenses[kj[1]].users)} :
        LET e == expenses[ij[1]]
            user_data == e.users[ij[2]]
        IN  /\ ~e.deleted_at /\ ~e.payment
            /\ user_data.user.id = current_user_id
            /\ Cents(ParseDecimal(user_data.paid_share)) > 0}

\* The months in which the current user takes part in an expense that is
\* neither deleted nor a settlement.
PopulatedMonths ==
    {MonthKey(expenses[k].date) :
        k \in {i \in 1..Len(expenses) :
                 /\ ~expenses[i].deleted_at /\ ~expenses[i].payment
                 /\ \E j \in 1..Len(expenses[i].users) :
                       expenses[i].users[j].user.id = current_user_id}}

\* C19: with fewer than 3 positive paid amounts detect_anomalies returns no
\* anomalies and the insufficient-data explanation; with fewer than 2
\* populated months predict_balance returns 0, low and stable with the
\* insufficient-data explanation.
C19_InsufficientDataIsAResult ==
    /\ \A c \in CallsOf("detect_anomalies") :
          Cardinality(PositivePaidPlaces) < 3
          => /\ c.out.anomalies = <<>>
             /\ c.out.explanation = "Insufficient data for anomaly detection"
    /\ \A c \in CallsOf("predict_balance") :
          Cardinality(PopulatedMonths) < 2
          => /\ c.out.predicted_balance.num = 0
             /\ c.out.confidence_level = "low"
             /\ c.out.trend = "stable"
             /\ c.out.explanation = "Insufficient data for prediction"

\* Both were called on a list with two positive paid amounts in one month.
C19_Witness ==
    /\ Cardinality(PositivePaidPlaces) = 2
    /\ Cardinality(PopulatedMonths) = 1
    /\ CallsOf("detect_anomalies") # {}
    /\ CallsOf("predict_balance") # {}

\* Both were called on the empty list.
C19_WitnessEmpty ==
    /\ expenses = <<>>
    /\ CallsOf("detect_anomalies") # {}
    /\ CallsOf("predict_balance") # {}

\* The occurrences of a pattern key
Occurrences(key) ==
    Cardinality({ij \in PositivePaidPlaces :
                    Pattern(expenses[ij[1]].description) = key})

RecurringKeys ==
    {key \in {Pattern(expenses[k].description) : k \in 1..Len(expenses)} :
        Occurrences(key) >= 3}

\* C20: detect_subscriptions returns one RecurringExpense for each pattern
\* key with at least 3 occurrences and no other, its occurrences being that
\* count, and total_monthly_subscriptions is the sum of the average amounts
\* of the returned patterns with frequency_days <= 35.
C20_OnePatternPerRecurringKey ==
    \A c \in CallsOf("detect_subscriptions") :
        LET subs == c.out.subscriptions
            monthly == {k \in 1..Len(subs) :
                           subs[k].frequency_days.num <= 35 * subs[k].frequency_days.den}
            \* a common denominator of the averages
            D == 60
            total == c.out.total_monthly_subscriptions
        IN  /\ Len(subs) = Cardinality(RecurringKeys)
            /\ \A key \in RecurringKeys :
                  \E k \in 1..Len(subs) :
                      /\ subs[k].description_pattern = key
                      /\ subs[k].occurrences = Occurrences(key)
            /\ \A k \in monthly : D % subs[k].average_amount.den = 0
            /\ total.num * D
                 = total.den * SumFn([k \in monthly |->
                                         subs[k].average_amount.num
                                         * (D \div subs[k].average_amount.den)])

\* Three bills of 15.00 thirty days apart: one pattern with 3 occurrences
\* every 30 days and a monthly total of 15.00.
C20_Witness ==
    /\ Len(expenses) = 3
    /\ \A k \in 1..3 : expenses[k] = Identified(Entry("bill", k), k, 0)
    /\ \E c \in CallsOf("detect_subscriptions") :
          /\ Len(c.out.subscriptions) = 1
          /\ c.out.subscriptions[1].occurrences = 3
          /\ c.out.subscriptions[1].frequency_days = Quotient(30, 1)
          /\ c.out.total_monthly_subscriptions = Quotient(1500, 1)

\* A pattern recurring less often than every 35 days is left out of the
\* monthly total.
C20_WitnessNotMonthly ==
    \E c \in CallsOf("detect_subscriptions") :
        /\ Len(c.out.subscriptions) = 1
        /\ c.out.subscriptions[1].frequency_days.num
             > 35 * c.out.subscriptions[1].frequency_days.den
        /\ c.out.total_monthly_subscriptions.num = 0

----------------------------------------------------------------------------
(* Claims about the order of process_data, checked under SpecProcessFair *)

\* What the normalizer makes of the expenses and groups process_data is given
NormalizedExpenses == normalize_expenses(expenses, base_currency).expenses

NormalizedGroups == normalize_groups(groups)

AnyAnalyzerRan ==
    \/ spending.run
    \/ insights[current_user_id].run
    \/ categories.run
    \/ groups_insight.run
    \/ advanced.run

EveryAnalyzerRan ==
    /\ spending.run
    /\ insights[current_user_id].run
    /\ categories.run
    /\ groups_insight.run
    /\ advanced.run

\* The verifier has run only after the normalizer and every analyzer only
\* after the verifier, each on the normalized expenses and groups.
NormalizeVerifyAnalyze ==
    /\ validation.run => normalized.run /\ ~normalized.raised
    /\ AnyAnalyzerRan => validation.run
    /\ validation.run
       => validation.out = verify_all(current_user_id, NormalizedExpenses,
                                      NormalizedGroups)
    /\ spending.run
       => spending.out = SpendingAnalyzer_analyze(current_user_id, NormalizedExpenses)
    /\ insights[current_user_id].run
       => insights[current_user_id].out
            = BalanceAnalyzer_analyze(current_user_id, NormalizedExpenses)
    /\ categories.run
       => categories.out = CategoryAnalyzer_analyze(current_user_id, NormalizedExpenses)
    /\ groups_insight.run
       => groups_insight.out
            = GroupAnalyzer_analyze(current_user_id, NormalizedExpenses,
                                    NormalizedGroups)
    /\ advanced.run
       => /\ advanced.cash_flow = analyze_cash_flow(current_user_id, NormalizedExpenses)
          /\ advanced.subscriptions
               = detect_subscriptions(current_user_id, NormalizedExpenses)
          /\ advanced.prediction
               = predict_balance(current_user_id, NormalizedExpenses, 1)
          /\ advanced.friction
               = rank_friction(current_user_id, NormalizedExpenses,
                               NormalizedGroups, now)

InvalidReported == validation.run /\ ~validation.out.is_valid

InsightsReturned ==
    /\ pc = "returned"
    /\ EveryAnalyzerRan
    /\ display.run /\ ~display.raised

----------------------------------------------------------------------------
(* Claims about the category, group and cash-flow analyzers, checked under  *)
(* SpecInsight                                                              *)

\* The entries of user 1 in the users list of expense i.
OwnEntries(i) ==
    {j \in 1..Len(expenses[i].users) : UserIdOf(expenses[i].users[j]) = 1}

\* The expenses that are neither deleted nor settlements and in which user 1
\* takes part.
OwnExpenses ==
    {i \in 1..Len(expenses) :
        /\ ~expenses[i].deleted_at
        /\ ~expenses[i].payment
        /\ OwnEntries(i) # {}}

\* What user 1 paid, and what user 1 owes, in expense i, in cents.
PaidIn(i) ==
    SumFn([j \in OwnEntries(i) |->
              Cents(ParseDecimal(expenses[i].users[j].paid_share))])

OwedIn(i) ==
    SumFn([j \in OwnEntries(i) |->
              Cents(ParseDecimal(expenses[i].users[j].owed_share))])

\* The category expense i counts under.
CategoryIn(i) ==
    IF expenses[i].category = "" THEN "Uncategorized" ELSE expenses[i].category

\* What user 1 paid in the expenses of category c, in cents.
PaidInCategory(c) ==
    SumFn([i \in {i \in OwnExpenses : CategoryIn(i) = c} |-> PaidIn(i)])

\* The first expense of category c.
FirstOfCategory(c) ==
    CHOOSE i \in OwnExpenses :
        /\ CategoryIn(i) = c
        /\ \A j \in OwnExpenses : CategoryIn(j) = c => i <= j

\* by_category holds one entry for each category of user 1's expenses, with
\* the sum of the paid shares.
ByCategorySums ==
    LET by_category == categories.out.by_category IN
    /\ DictKeys(by_category) = {CategoryIn(i) : i \in OwnExpenses}
    /\ \A k \in 1..Len(by_category) :
         /\ Cents(by_category[k][2]) = PaidInCategory(by_category[k][1])
         /\ \A l \in 1..Len(by_category) :
              by_category[l][1] = by_category[k][1] => l = k

\* top_categories holds the ten largest categories, or all of them, larger
\* amounts first and equal amounts in the order the categories were first
\* seen.
TopCategoriesRanked ==
    LET top == categories.out.top_categories
        all == {CategoryIn(i) : i \in OwnExpenses}
        listed == {top[k].category : k \in 1..Len(top)}
    IN  /\ Len(top) <= 10
        /\ Len(top) = IF Cardinality(all) < 10 THEN Cardinality(all) ELSE 10
        /\ listed \subseteq all
        /\ \A k \in 1..Len(top) :
             Cents(top[k].amount) = PaidInCategory(top[k].category)
        /\ \A k, l \in 1..Len(top) :
             k < l =>
               \/ Cents(top[k].amount) > Cents(top[l].amount)
               \/ /\ Cents(top[k].amount) = Cents(top[l].amount)
                  /\ FirstOfCategory(top[k].category)
                       < FirstOfCategory(top[l].category)
        /\ \A c \in all \ listed : \A k \in 1..Len(top) :
             \/ PaidInCategory(c) < Cents(top[k].amount)
             \/ /\ PaidInCategory(c) = Cents(top[k].amount)
                /\ FirstOfCategory(top[k].category) < FirstOfCategory(c)

\* What user 1 paid in all categories, in cents.
CategoryTotal == SumFn([i \in OwnExpenses |-> PaidIn(i)])

\* The percentage of an entry in hundredths of a percent.
Hundredths(entry) == Cents(entry.percentage)

\* C21 as the claim states it: by_category sums the paid shares by category,
\* top_categories is the stable ranking cut at ten, and every percentage is
\* amount / total * 100, or 0 when the total is zero.
C21_PercentageIsExactQuotient ==
    categories.run =>
        /\ ByCategorySums
        /\ TopCategoriesRanked
        /\ \A k \in 1..Len(categories.out.top_categories) :
             LET entry == categories.out.top_categories[k] IN
             IF CategoryTotal = 0 THEN Hundredths(entry) = 0
             ELSE Hundredths(entry) * CategoryTotal = Cents(entry.amount) * 10000

\* C21, amended: by_category sums the paid shares by category,
\* top_categories is the stable ranking cut at ten, and every percentage is
\* amount / total * 100 rounded to two decimal places (the hundredth nearest
\* to the quotient), or 0 when the total is zero.
C21_PercentageIsRoundedQuotient ==
    categories.run =>
        /\ ByCategorySums
        /\ TopCategoriesRanked
        /\ \A k \in 1..Len(categories.out.top_categories) :
             LET entry == categories.out.top_categories[k] IN
             IF CategoryTotal = 0 THEN Hundredths(entry) = 0
             ELSE 2 * Abs(Hundredths(entry) * CategoryTotal
                          - Cents(entry.amount) * 10000) <= CategoryTotal

\* More than ten categories were ranked, the first two with equal amounts,
\* and a percentage is not a whole number of hundredths.
C21_Witness ==
    /\ categories.run
    /\ Len(categories.out.by_category) > 10
    /\ Len(categories.out.top_categories) = 10
    /\ categories.out.top_categories[1].amount
         = categories.out.top_categories[2].amount
    /\ \E k \in 1..10 :
         Hundredths(categories.out.top_categories[k]) * CategoryTotal
           # Cents(categories.out.top_categories[k].amount) * 10000

\* The group id expense i counts under: 0 without one.
GroupIn(i) == expenses[i].group_id

\* The expenses of user 1 in group g.
OwnInGroup(g) == {i \in OwnExpenses : GroupIn(i) = g}

\* The groups of the list with id g.
Listed(g) == {k \in 1..Len(groups) : groups[k].id = g}

\* by_group holds one entry for each group of user 1's expenses, with the sum
\* of the paid shares and the number of the expenses.
ByGroupSums ==
    LET by_group == groups_insight.out.by_group IN
    /\ DictKeys(by_group) = {GroupIn(i) : i \in OwnExpenses}
    /\ \A k \in 1..Len(by_group) :
         LET g == by_group[k][1] IN
         /\ Cents(by_group[k][2].total_spending)
              = SumFn([i \in OwnInGroup(g) |-> PaidIn(i)])
         /\ by_group[k][2].expense_count = Cardinality(OwnInGroup(g))
         /\ \A l \in 1..Len(by_group) : by_group[l][1] = g => l = k

\* C22 as the claim states it: every group of user 1's expenses has its sum
\* and its count; the entry of the expenses without a group id is named
\* "No Group", the entry of an id of the groups list after the group, and the
\* entry of any other id "Group {id}".
C22_NoGroupIdIsNamedNoGroup ==
    groups_insight.run =>
        /\ ByGroupSums
        /\ \A k \in 1..Len(groups_insight.out.by_group) :
             LET g == groups_insight.out.by_group[k][1]
                 name == groups_insight.out.by_group[k][2].name
             IN  IF g = 0 THEN name = <<"No Group">>
                 ELSE IF Listed(g) # {}
                      THEN \E l \in Listed(g) : name = <<groups[l].name>>
                      ELSE name = <<"Group">> \o NatDigits(g)

\* C22, amended: every group of user 1's expenses has its sum and its count,
\* an expense without a group id counting under id 0; the entry of an id of
\* the groups list is named after the group, and any other entry "No Group"
\* when its id is 0 and "Group {id}" otherwise.
C22_ListedGroupsNamedFirst ==
    groups_insight.run =>
        /\ ByGroupSums
        /\ \A k \in 1..Len(groups_insight.out.by_group) :
             LET g == groups_insight.out.by_group[k][1]
                 name == groups_insight.out.by_group[k][2].name
             IN  IF Listed(g) # {}
                 THEN \E l \in Listed(g) : name = <<groups[l].name>>
                 ELSE IF g = 0 THEN name = <<"No Group">>
                 ELSE name = <<"Group">> \o NatDigits(g)

\* Expenses without a group id were counted while the list holds a group of
\* id 0, next to expenses of a group the list does not hold.
C22_Witness ==
    /\ groups_insight.run
    /\ Listed(0) # {}
    /\ OwnInGroup(0) # {}
    /\ \E k \in 1..Len(groups_insight.out.by_group) :
         /\ groups_insight.out.by_group[k][1] # 0
         /\ Listed(groups_insight.out.by_group[k][1]) = {}

\* The expenses of user 1 in which user 1 paid more than user 1 owes.
FrontPaid == {i \in OwnExpenses : PaidIn(i) > OwedIn(i)}

\* C23: net_cash_flow is what user 1 paid less what user 1 owes over the
\* expenses that are neither deleted nor settlements, user 1 is called a net
\* payer exactly when that is positive, and front_pay_percentage is 100 times
\* the number of user 1's expenses with paid > owed over the number of user
\* 1's expenses, or 0 when user 1 has none.
C23_FrontPayOverAllOwnExpenses ==
    advanced.run =>
        LET flow == advanced.cash_flow
            net == SumFn([i \in OwnExpenses |-> PaidIn(i) - OwedIn(i)])
        IN  /\ Cents(flow.net_cash_flow) = net
            /\ Cents(flow.net_cash_flow)
                 = Cents(flow.total_paid) - Cents(flow.total_received)
            /\ (flow.flow_desc = "net payer") <=> (net > 0)
            /\ IF OwnExpenses = {} THEN flow.front_pay_percentage.num = 0
               ELSE flow.front_pay_percentage.num * Cardinality(OwnExpenses)
                      = 100 * Cardinality(FrontPaid) * flow.front_pay_percentage.den

----------------------------------------------------------------------------
(* Claims about rank_friction, checked under SpecClock *)

\* The positive owed shares of the users other than user 1 in the expenses
\* that are not deleted, as <<expense index, entry index>>.
OwedByOthers ==
    {ij \in (1..Len(expenses)) \X (1..3) :
        /\ ~expenses[ij[1]].deleted_at
        /\ ij[2] <= Len(expenses[ij[1]].users)
        /\ UserIdOf(expenses[ij[1]].users[ij[2]]) # 1
        /\ Cents(ParseDecimal(expenses[ij[1]].users[ij[2]].owed_share)) > 0}

OwedCents(ij) == Cents(ParseDecimal(expenses[ij[1]].users[ij[2]].owed_share))

\* Those of person p, and those of the expenses of group g.
OwedByPerson(p) ==
    {ij \in OwedByOthers : UserIdOf(expenses[ij[1]].users[ij[2]]) = p}

OwedInGroup(g) == {ij \in OwedByOthers : expenses[ij[1]].group_id = g}

\* The expenses of group g that are not deleted.
LiveInGroup(g) ==
    {i \in 1..Len(expenses) : ~expenses[i].deleted_at /\ expenses[i].group_id = g}

\* The rows of a list are in non-increasing order of friction_score.
ScoresDescend(rows) ==
    \A k, l \in 1..Len(rows) : k < l => ~HigherScore(rows[l], rows[k])

\* C24: rank_friction never lists user 1 in by_person; the score of a person
\* is the sum of that person's positive owed shares plus 10 times the mean
\* age in days of those shares; the score of a group is the owed shares
\* accumulated in the group plus 5 times the number of its expenses, the
\* expenses without a group under group id None; both lists are in
\* non-increasing order of score.  Scores are in cents.
C24_FrictionScores ==
    \A c \in calls :
        c.op = "rank_friction" =>
            /\ \A k \in 1..Len(c.out.by_person) :
                 LET row == c.out.by_person[k]
                     owed == OwedByPerson(row.user_id)
                     ages == SumFn([ij \in owed |->
                                       c.at - DayNumber(expenses[ij[1]].date)])
                 IN  /\ row.user_id # 1
                     /\ owed # {}
                     /\ row.friction_score.num * Cardinality(owed)
                          = (SumFn([ij \in owed |-> OwedCents(ij)])
                                 * Cardinality(owed) + 1000 * ages)
                            * row.friction_score.den
            /\ \A k \in 1..Len(c.out.by_group) :
                 LET row == c.out.by_group[k]
                     g == IF row.group_id = None THEN 0 ELSE row.group_id[1]
                 IN  /\ LiveInGroup(g) # {}
                     /\ row.friction_score.num
                          = (SumFn([ij \in OwedInGroup(g) |-> OwedCents(ij)])
                             + 500 * Cardinality(LiveInGroup(g)))
                            * row.friction_score.den
            /\ ScoresDescend(c.out.by_person)
            /\ ScoresDescend(c.out.by_group)

\* What holds of the groups instead: the score of a group is 5 times the
\* number of its expenses.
GroupScoreCountsExpensesOnly ==
    \A c \in calls :
        c.op = "rank_friction" =>
            \A k \in 1..Len(c.out.by_group) :
                LET row == c.out.by_group[k]
                    g == IF row.group_id = None THEN 0 ELSE row.group_id[1]
                IN  row.friction_score.num
                      = 500 * Cardinality(LiveInGroup(g)) * row.friction_score.den

----------------------------------------------------------------------------
(* The balance trend, checked under SpecBalance *)

\* The live edges with u at one end, and the month key of an edge.
EdgesOf(u) ==
    {ij \in LiveEdges : EdgeAt(ij).to_user = u \/ EdgeAt(ij).from_user = u}

EdgeMonth(ij) == MonthKey(expenses[ij[1]].date)

\* C29: the balance trend has one entry for each month with an edge of the
\* user, in chronological order; its value at a month is the sum of the
\* balance deltas of that month and of all months before it; and the value
\* at its last month is net_balance.
C29_TrendIsRunningSum ==
    \A u \in Users :
        insights[u].run =>
            LET trend == insights[u].out.trend_over_time IN
            /\ {trend[k][1] : k \in 1..Len(trend)} = {EdgeMonth(ij) : ij \in EdgesOf(u)}
            /\ \A k, l \in 1..Len(trend) : k < l => trend[k][1] < trend[l][1]
            /\ \A k \in 1..Len(trend) :
                 Cents(trend[k][2])
                   = SumFn([ij \in {e \in EdgesOf(u) : EdgeMonth(e) <= trend[k][1]}
                               |-> EdgeDelta(u, ij)])
            /\ Len(trend) > 0 =>
                 Cents(trend[Len(trend)][2]) = Cents(insights[u].out.net_balance)

\* A trend of two months whose second value differs from the delta of the
\* second month.
C29_Witness ==
    \E u \in Users :
        /\ insights[u].run
        /\ Len(insights[u].out.trend_over_time) = 2
        /\ Cents(insights[u].out.trend_over_time[1][2]) # 0
        /\ Cents(insights[u].out.trend_over_time[2][2])
             # Cents(insights[u].out.trend_over_time[1][2])

----------------------------------------------------------------------------
(* get_expenses, checked under SpecPagingFair *)

\* C28: get_expenses returns, and what it returns is the list of the service,
\* every expense once and in the order of the service; the offsets it
\* requests are strictly increasing.
C28_EveryExpenseOnce ==
    /\ <>(frames.at = "returned")
    /\ [](frames.at = "returned" => frames.all_expenses = globals.served)
    /\ [](\A k, l \in 1..Len(frames.requested) :
             k < l => frames.requested[k] < frames.requested[l])

\* get_expenses has returned a list of several full pages and no partial
\* one, after a last request that was answered with nothing.
C28_Witness ==
    /\ frames.at = "returned"
    /\ Len(globals.served) > 0
    /\ Len(globals.served) % frames.limit = 0
    /\ Len(frames.requested) >= 3
    /\ frames.page = <<>>

----------------------------------------------------------------------------
(* SessionManager, checked under SpecSessions and SpecSessionsFair *)

\* Thread t is in get_session with the lock, and the session of the signed
\* id it was given is stored and expired.
FoundExpired(t) ==
    /\ frames[t].op = "get_session"
    /\ frames[t].at = "get_lookup"
    /\ frames[t].arg[1] \in DOMAIN globals._sessions
    /\ globals._sessions[frames[t].arg[1]].is_expired

\* get_session of thread t has returned None, the session of the signed id
\* is in neither dict, and the thread does not hold the lock.
ExpiredDropped(t) ==
    /\ frames[t].op = "get_session"
    /\ frames[t].at = "returned"
    /\ frames[t].result = <<"None">>
    /\ frames[t].arg[1] \notin DOMAIN globals._sessions
    /\ \A u \in DOMAIN globals._user_sessions :
         globals._user_sessions[u] # frames[t].arg[1]
    /\ globals._lock # t

\* C25: get_session given the signed id of a stored session that has expired
\* returns None in the end, with the session removed from _sessions and
\* _user_sessions and the lock released.
C25_ExpiredSessionIsDropped ==
    \A t \in Threads : FoundExpired(t) ~> ExpiredDropped(t)

\* What happens instead: the thread waits, within destroy_session, for the
\* lock it holds itself.
WaitsForOwnLock(t) ==
    /\ frames[t].at = "destroy_acquire"
    /\ frames[t].nested
    /\ globals._lock = t

\* _user_sessions[u] = s exactly when s is in _sessions and belongs to u.
SessionsMatchUsers ==
    /\ \A u \in DOMAIN globals._user_sessions :
         /\ globals._user_sessions[u] \in DOMAIN globals._sessions
         /\ globals._sessions[globals._user_sessions[u]].splitwise_user_id = u
    /\ \A s \in DOMAIN globals._sessions :
         /\ globals._sessions[s].splitwise_user_id \in DOMAIN globals._user_sessions
         /\ globals._user_sessions[globals._sessions[s].splitwise_user_id] = s

\* No user has two stored sessions.
OneSessionEach ==
    \A s1, s2 \in DOMAIN globals._sessions :
        globals._sessions[s1].splitwise_user_id
          = globals._sessions[s2].splitwise_user_id => s1 = s2

\* The last session created for the user of session s.
LatestOf(s) ==
    LET user == globals.issued[s][1]
        later == {k \in 1..Len(globals.issued) : globals.issued[k][1] = user}
    IN  CHOOSE k \in later : \A l \in later : l <= k

\* A step in which get_session of thread t returns a session.
Accepts(t) ==
    /\ frames[t].at = "get_lookup"
    /\ frames'[t].at = "returned"
    /\ frames'[t].result # <<"None">>

\* C27: whenever no thread holds the lock, _user_sessions[u] = s exactly when
\* s is in _sessions and belongs to u, so that no user has two sessions; and
\* get_session never accepts a signed id after create_session has been
\* called again for the same user.
C27_OneSessionPerUser ==
    /\ [](globals._lock = 0 => SessionsMatchUsers /\ OneSessionEach)
    /\ [][\A t \in Threads :
            Accepts(t) => LatestOf(frames[t].arg[1]) = frames[t].arg[1]]_vars

\* Two sessions were created for one user, the second is stored, and
\* get_session has turned down the signed id of the first.
C27_Witness ==
    /\ globals._lock = 0
    /\ \E t \in Threads :
         /\ frames[t].op = "get_session"
         /\ frames[t].at = "returned"
         /\ frames[t].result = <<"None">>
         /\ VerifySessionId(frames[t].arg) # None
         /\ frames[t].arg[1] <= Len(globals.issued)
         /\ LatestOf(frames[t].arg[1]) # frames[t].arg[1]
         /\ LatestOf(frames[t].arg[1]) \in DOMAIN globals._sessions

-----------------------------------------------------------------------------
(* Claims about the OAuth state and the module-level data, checked under
   SpecWeb *)

\* A step in which /auth/callback goes on to the token exchange.
GoesToExchange == Len(globals'.exchanges) = Len(globals.exchanges) + 1

\* The state the callback of such a step carries.
Carried == globals'.exchanges[Len(globals'.exchanges)]

\* No state went on to the token exchange twice.
AcceptedOnce ==
    \A i, j \in 1..Len(globals.exchanges) :
      i # j /\ globals.exchanges[i] # None
        => globals.exchanges[i] # globals.exchanges[j]

\* C26: /auth/callback goes on to the token exchange only with a state that
\* generate_oauth_state has returned and that is not yet cleared, and no state
\* is accepted twice.
C26_StateGivesCsrfProtection ==
    /\ [][GoesToExchange =>
            /\ Carried # None
            /\ Carried[1] \in 1..globals.generated
            /\ validate_oauth_state(globals._oauth_states, Carried[1])]_vars
    /\ []AcceptedOnce

\* The data the module keeps between requests.
Kept(state) ==
    <<state.current_data, state.current_expenses, state.current_groups,
      state.current_user_id>>

\* A step in which a request is answered.
Answered ==
    \/ frames'.begun = frames.begun + 1 /\ frames'.pending = frames.pending
    \/ Len(frames'.pending) < Len(frames.pending)

\* A step in which /api/ingest, /api/ingest/file or /auth/callback fails.
FailedRequest ==
    /\ Answered
    /\ frames'.response.handler
         \in {"ingest_data", "ingest_file", "oauth_callback"}
    /\ frames'.response.status >= 400

\* current_data is what process_data returns for the data stored.
DataOfStored ==
    \E base \in RequestBases :
      globals.current_data =
        process_data(globals.current_expenses, globals.current_groups,
                     globals.current_user_id, base)

\* C30: current_data is None until a request has succeeded, afterwards it is
\* the result of process_data on the stored current_expenses, current_groups
\* and current_user_id, and a request that fails leaves the four unchanged.
C30_ModuleStateConsistent ==
    /\ [](~globals.succeeded => globals.current_data = NotRun)
    /\ [](globals.succeeded => DataOfStored)
    /\ [][FailedRequest => Kept(globals') = Kept(globals)]_vars

====
